---- MODULE Spec2Model ----
(***************************************************************************)
(* Model of the VLESS-over-WebSocket gateway of src/_worker.js: the header *)
(* parser (processVlessHeader), the inbound WebSocket stream adapter       *)
(* (makeReadableWebSocketStream), the per-session write handler            *)
(* (vlessOverWSHandler), the outbound dial with retry (handleTCPOutBound)  *)
(* and the downstream pump (remoteSocketToWS).                             *)
(*                                                                         *)
(* Bytes are naturals 0..255, buffers are sequences of bytes with the      *)
(* source's 0-based offsets, text is a sequence of code points.            *)
(***************************************************************************)
EXTENDS Integers, Sequences, FiniteSets, TLC

\* ------------------------------------------------------------------ bounds
\* number of inbound chunks of one session: early data and 'message' events
MaxMsgs == 2
\* number of chunks one outbound socket may yield
MaxRemoteChunks == 2
\* number of outbound sockets a session may open before the model stops dialing
MaxSocks == 3
\* length of the options section of an encoded request
MaxOptLen == 1
\* length of the payload that follows an encoded request in its chunk
MaxPayload == 1
\* calls of safeCloseWebSocket on one socket
MaxCloses == 4

\* --------------------------------------------------------- program constants
WS_READY_STATE_OPEN == 1
WS_READY_STATE_CLOSING == 2
WS_READY_STATE_CLOSED == 3
WS_READY_STATE_CONNECTING == 0

\* the value JavaScript calls undefined (a read past the end of a buffer)
Undefined == -1

\* let userID = '550e8400-e29b-41d4-a716-446655440000'
DefaultUserID ==
  <<53, 53, 48, 101, 56, 52, 48, 48, 45, 101, 50, 57, 98, 45, 52, 49, 100, 52,
    45, 97, 55, 49, 54, 45, 52, 52, 54, 54, 53, 53, 52, 52, 48, 48, 48, 48>>

\* let proxyIP = ''
DefaultProxyIP == <<>>

\* ------------------------------------------------------------ buffer helpers
Min(a, b) == IF a < b THEN a ELSE b

\* ArrayBuffer.prototype.slice(begin, end): 0-based, end exclusive, clamped
Slice(buf, begin, end) ==
  LET b == Min(begin, Len(buf))
      e == Min(end, Len(buf))
  IN  IF e <= b THEN <<>> ELSE SubSeq(buf, b + 1, e)

\* chunk.slice(begin)
SliceFrom(buf, begin) == Slice(buf, begin, Len(buf))

\* new Uint8Array(buf.slice(i, i + 1))[0]
ByteAt(buf, i) == IF i < Len(buf) THEN buf[i + 1] ELSE Undefined

RECURSIVE Concat(_)
Concat(ss) == IF ss = <<>> THEN <<>> ELSE Head(ss) \o Concat(Tail(ss))

\* ------------------------------------------------------------- text helpers
\* one lowercase hexadecimal digit as a code point
HexDigit(d) == IF d < 10 THEN 48 + d ELSE 87 + d

\* Number.prototype.toString(16) of a value below 65536: no leading zeros
RECURSIVE ToString16(_)
ToString16(n) ==
  IF n < 16 THEN <<HexDigit(n)>> ELSE ToString16(n \div 16) \o <<HexDigit(n % 16)>>

\* String(n) of a byte, as Array.prototype.join renders it
RECURSIVE ToString10(_)
ToString10(n) ==
  IF n < 10 THEN <<48 + n>> ELSE ToString10(n \div 10) \o <<48 + (n % 10)>>

\* fault variant: the parts are joined without the separator
JoinNoSeparator(parts, sep) == Concat(parts)

\* Array.prototype.join(sep) over already rendered parts
RECURSIVE Join(_, _)
Join(parts, sep) ==
  IF parts = <<>> THEN <<>>
  ELSE IF Len(parts) = 1 THEN parts[1]
  ELSE parts[1] \o sep \o Join(Tail(parts), sep)

\* String.prototype.replace(/-/g, '')
StripDashes(s) == SelectSeq(s, LAMBDA c : c # 45)

\* byte.toString(16).padStart(2, '0') folded over the array
stringify(arr) ==
  Concat([i \in 1..Len(arr) |-> <<HexDigit(arr[i] \div 16), HexDigit(arr[i] % 16)>>])

\* new TextDecoder().decode(bytes): UTF-8 with U+FFFD for ill-formed input.
\* One- and two-byte forms are decoded; every other byte (a stray
\* continuation byte, an overlong lead C0/C1, a lead of a longer form) is
\* rendered U+FFFD, which is exact for buffers holding no lead byte E0..F4.
RECURSIVE Utf8Decode(_)
Utf8Decode(bs) ==
  IF bs = <<>> THEN <<>>
  ELSE LET b == Head(bs) IN
    IF b < 128 THEN <<b>> \o Utf8Decode(Tail(bs))
    ELSE IF b >= 194 /\ b <= 223 /\ Len(bs) >= 2 /\ bs[2] >= 128 /\ bs[2] <= 191
      THEN <<(b - 192) * 64 + (bs[2] - 128)>> \o Utf8Decode(Tail(Tail(bs)))
    ELSE <<65533>> \o Utf8Decode(Tail(bs))

\* new DataView(buf).getUint16(off): big-endian; a RangeError when the two
\* bytes are not inside the view
CanGetUint16(buf, off) == off + 2 <= Len(buf)

\* fault variant: the two bytes are read little-endian
GetUint16LittleEndian(buf, off) == buf[off + 2] * 256 + buf[off + 1]

GetUint16(buf, off) == buf[off + 1] * 256 + buf[off + 2]

\* ------------------------------------------------------- processVlessHeader
\* result shapes: a returned object (hasError true/false) or a thrown error;
\* kvError tells whether the call logged 'KV check error'
HdrError(msg) ==
  [kind |-> "return", hasError |-> TRUE, message |-> msg,
   addressRemote |-> <<>>, addressType |-> Undefined, portRemote |-> Undefined,
   rawDataIndex |-> Undefined, vlessVersion |-> <<>>, isUDP |-> FALSE,
   kvError |-> FALSE]

HdrThrow(msg) == [HdrError(msg) EXCEPT !.kind = "throw"]

\* fault variant: the identity check accepts every identifier
IsValidUserAcceptsAll(vlessBuffer, uid, env, store, kvFails) == TRUE

\* fault variant: a lookup that fails counts as a stored account
IsValidUserAcceptsOnKvError(vlessBuffer, uid, env, store, kvFails) ==
  LET uuidString == stringify(Slice(vlessBuffer, 1, 17)) IN
    \/ uuidString = StripDashes(uid)
    \/ /\ env.VLESS_KV
       /\ (kvFails \/ uuidString \in store)

\* the identity check of lines 198-216: static identifier first, then the
\* key-value backend when the environment has one; a backend error is caught
\* and leaves the user invalid
IsValidUser(vlessBuffer, uid, env, store, kvFails) ==
  LET uuidString == stringify(Slice(vlessBuffer, 1, 17)) IN
    \/ uuidString = StripDashes(uid)
    \/ /\ env.VLESS_KV
       /\ ~kvFails
       /\ uuidString \in store

\* the address switch of lines 251-278, given the offset of the address type
AddressOf(vlessBuffer, addressIndex) ==
  LET addressType == ByteAt(vlessBuffer, addressIndex)
      avi == addressIndex + 1
  IN  CASE addressType = 1 ->
             [kind |-> "ok", addressLength |-> 4, addressValueIndex |-> avi,
              addressValue |->
                Join([i \in 1..Len(Slice(vlessBuffer, avi, avi + 4)) |->
                        ToString10(Slice(vlessBuffer, avi, avi + 4)[i])], <<46>>)]
        [] addressType = 2 ->
             LET addressLength == ByteAt(vlessBuffer, avi) IN
             [kind |-> "ok", addressLength |-> addressLength,
              addressValueIndex |-> avi + 1,
              addressValue |->
                IF addressLength = Undefined THEN <<>>
                ELSE Utf8Decode(Slice(vlessBuffer, avi + 1, avi + 1 + addressLength))]
        [] addressType = 3 ->
             LET view == Slice(vlessBuffer, avi, avi + 16) IN
             IF ~CanGetUint16(view, 14)
             THEN [kind |-> "throw", addressLength |-> 16, addressValueIndex |-> avi,
                   addressValue |-> <<>>]
             ELSE [kind |-> "ok", addressLength |-> 16, addressValueIndex |-> avi,
                   addressValue |->
                     Join([i \in 1..8 |-> ToString16(GetUint16(view, (i - 1) * 2))], <<58>>)]
        [] OTHER ->
             [kind |-> "badtype", addressLength |-> 0, addressValueIndex |-> avi,
              addressValue |-> <<>>]

\* fault variant: the length test is off by one
TooShortOffByOne(vlessBuffer) == Len(vlessBuffer) < 23

\* vlessBuffer.byteLength < 24, the first test of every processVlessHeader
TooShort(vlessBuffer) == Len(vlessBuffer) < 24

\* the key-value lookup was made and threw (lines 207-215)
KvCheckError(vlessBuffer, uid, env, kvFails) ==
  /\ stringify(Slice(vlessBuffer, 1, 17)) # StripDashes(uid)
  /\ env.VLESS_KV
  /\ kvFails

\* fault variant: the payload is taken to start where the address starts
RawDataIndexAtAddress(addressValueIndex, addressLength) == addressValueIndex

\* rawDataIndex: addressValueIndex + addressLength
RawDataIndex(addressValueIndex, addressLength) == addressValueIndex + addressLength

processVlessHeader(vlessBuffer, uid, env, store, kvFails) ==
  IF TooShort(vlessBuffer) THEN HdrError("Invalid data length")
  ELSE IF ~IsValidUser(vlessBuffer, uid, env, store, kvFails)
    THEN [HdrError("Invalid user ID") EXCEPT
            !.kvError = KvCheckError(vlessBuffer, uid, env, kvFails)]
  ELSE
    LET version == Slice(vlessBuffer, 0, 1)
        optLength == ByteAt(vlessBuffer, 17)
        command == ByteAt(vlessBuffer, 18 + optLength)
        portIndex == 18 + optLength + 1
        portBuffer == Slice(vlessBuffer, portIndex, portIndex + 2)
        addressIndex == portIndex + 2
        a == AddressOf(vlessBuffer, addressIndex)
    IN
    IF command # 1 /\ command # 2 THEN HdrError("Unsupported command")
    ELSE IF ~CanGetUint16(portBuffer, 0) THEN HdrThrow("RangeError")
    ELSE IF a.kind = "badtype" THEN HdrError("Invalid address type")
    ELSE IF a.kind = "throw" THEN HdrThrow("RangeError")
    ELSE IF a.addressValue = <<>> THEN HdrError("Address value is empty")
    ELSE [kind |-> "return", hasError |-> FALSE, message |-> "",
          addressRemote |-> a.addressValue,
          addressType |-> ByteAt(vlessBuffer, addressIndex),
          portRemote |-> GetUint16(portBuffer, 0),
          rawDataIndex |-> RawDataIndex(a.addressValueIndex, a.addressLength),
          vlessVersion |-> version,
          isUDP |-> (command = 2),
          kvError |-> FALSE]

\* ---------------------------------- processVlessHeader of src/worker.js
\* const userID of the first program of src/worker.js:
\* '90cd4a77-141a-43c9-991b-08263cfe9c10'
Worker1UserID ==
  <<57, 48, 99, 100, 52, 97, 55, 55, 45, 49, 52, 49, 97, 45, 52, 51, 99, 57,
    45, 57, 57, 49, 98, 45, 48, 56, 50, 54, 51, 99, 102, 101, 57, 99, 49, 48>>

\* stringify of the first program: the 8-4-4-4-12 grouping with dashes
worker1_stringify(arr) ==
  Join(<< stringify(SubSeq(arr, 1, 4)), stringify(SubSeq(arr, 5, 6)),
          stringify(SubSeq(arr, 7, 8)), stringify(SubSeq(arr, 9, 10)),
          stringify(SubSeq(arr, 11, 16)) >>, <<45>>)

\* what both programs of src/worker.js do once the user is valid; msg names
\* the program's messages
worker_parseRequest(vlessBuffer, msg, withAddressType) ==
  LET version == Slice(vlessBuffer, 0, 1)
      optLength == ByteAt(vlessBuffer, 17)
      command == ByteAt(vlessBuffer, 18 + optLength)
      portIndex == 18 + optLength + 1
      portBuffer == Slice(vlessBuffer, portIndex, portIndex + 2)
      addressIndex == portIndex + 2
      a == AddressOf(vlessBuffer, addressIndex)
  IN
  IF command # 1 /\ command # 2 THEN HdrError(msg.command)
  ELSE IF ~CanGetUint16(portBuffer, 0) THEN HdrThrow("RangeError")
  ELSE IF a.kind = "badtype" THEN HdrError(msg.addressType)
  ELSE IF a.kind = "throw" THEN HdrThrow("RangeError")
  ELSE IF a.addressValue = <<>> THEN HdrError(msg.empty)
  ELSE [kind |-> "return", hasError |-> FALSE, message |-> "",
        addressRemote |-> a.addressValue,
        addressType |-> IF withAddressType THEN ByteAt(vlessBuffer, addressIndex)
                        ELSE Undefined,
        portRemote |-> GetUint16(portBuffer, 0),
        rawDataIndex |-> a.addressValueIndex + a.addressLength,
        vlessVersion |-> version,
        isUDP |-> (command = 2),
        kvError |-> FALSE]

\* the first program (lines 192-282): the dashed form of the identifier
\* against the identifier as configured
worker1_processVlessHeader(vlessBuffer, uid) ==
  IF TooShort(vlessBuffer) THEN HdrError("invalid data")
  ELSE IF worker1_stringify(Slice(vlessBuffer, 1, 17)) # uid THEN HdrError("invalid user")
  ELSE worker_parseRequest(vlessBuffer,
         [command |-> "command is not support", addressType |-> "invlid  addressType",
          empty |-> "addressValue is empty, addressType"], TRUE)

\* the second program (lines 594-690): the undashed form of the identifier
\* against the identifier as configured; the key-value lookup is started and
\* not awaited, so that its answer comes after isValidUser has been tested
worker2_processVlessHeader(vlessBuffer, uid, env) ==
  IF TooShort(vlessBuffer) THEN HdrError("invalid data")
  ELSE IF stringify(Slice(vlessBuffer, 1, 17)) # uid THEN HdrError("invalid user")
  ELSE worker_parseRequest(vlessBuffer,
         [command |-> "command not supported", addressType |-> "invalid addressType",
          empty |-> "addressValue is empty"], FALSE)

\* ------------------------------------------------------ base64ToArrayBuffer
\* the value of one base64 character, or Undefined outside the alphabet
Sextet(c) ==
  IF c >= 65 /\ c <= 90 THEN c - 65
  ELSE IF c >= 97 /\ c <= 122 THEN c - 71
  ELSE IF c >= 48 /\ c <= 57 THEN c + 4
  ELSE IF c = 43 THEN 62
  ELSE IF c = 47 THEN 63
  ELSE Undefined

IsAsciiWhitespace(c) == c \in {9, 10, 12, 13, 32}

\* the bytes of a run of sextets: 4 give 3 bytes, a tail of 3 gives 2, of 2 gives 1
RECURSIVE SextetsToBytes(_)
SextetsToBytes(v) ==
  IF Len(v) >= 4
    THEN << v[1] * 4 + v[2] \div 16, (v[2] % 16) * 16 + v[3] \div 4, (v[3] % 4) * 64 + v[4] >>
         \o SextetsToBytes(SubSeq(v, 5, Len(v)))
  ELSE IF Len(v) = 3 THEN << v[1] * 4 + v[2] \div 16, (v[2] % 16) * 16 + v[3] \div 4 >>
  ELSE IF Len(v) = 2 THEN << v[1] * 4 + v[2] \div 16 >>
  ELSE <<>>

\* window.atob as the HTML standard's forgiving-base64 decode
atob(data) ==
  LET d1 == SelectSeq(data, LAMBDA c : ~IsAsciiWhitespace(c))
      n1 == Len(d1)
      d2 == IF n1 % 4 = 0 /\ n1 >= 2 /\ d1[n1] = 61 /\ d1[n1 - 1] = 61 THEN SubSeq(d1, 1, n1 - 2)
            ELSE IF n1 % 4 = 0 /\ n1 >= 1 /\ d1[n1] = 61 THEN SubSeq(d1, 1, n1 - 1)
            ELSE d1
  IN  IF Len(d2) % 4 = 1 \/ \E i \in 1..Len(d2) : Sextet(d2[i]) = Undefined
        THEN [ok |-> FALSE, bytes |-> <<>>]
        ELSE [ok |-> TRUE, bytes |-> SextetsToBytes([i \in 1..Len(d2) |-> Sextet(d2[i])])]

\* result: earlyData present or not, error present or not
base64ToArrayBuffer(base64Str) ==
  IF base64Str = <<>> THEN [hasEarlyData |-> FALSE, earlyData |-> <<>>, error |-> FALSE]
  ELSE
    LET replaced == [i \in 1..Len(base64Str) |->
                       IF base64Str[i] = 45 THEN 43
                       ELSE IF base64Str[i] = 95 THEN 47 ELSE base64Str[i]]
        padding == (4 - (Len(replaced) % 4)) % 4
        padded == replaced \o [i \in 1..padding |-> 61]
        decode == atob(padded)
    IN  IF decode.ok
          THEN [hasEarlyData |-> TRUE, earlyData |-> decode.bytes, error |-> FALSE]
          ELSE [hasEarlyData |-> FALSE, earlyData |-> <<>>, error |-> TRUE]

\* ------------------------------------------------------- safeCloseWebSocket
\* WebSocket.close() of the runtime: an Open socket whose peer has not closed
\* goes to Closing; once the peer's close has been received the closing
\* handshake is complete and the socket is Closed
WsClose(readyState, peerClosed) ==
  IF peerClosed THEN WS_READY_STATE_CLOSED
  ELSE IF readyState = WS_READY_STATE_OPEN THEN WS_READY_STATE_CLOSING
  ELSE readyState

\* fault variant: socket.close() is called in every ready state
safeCloseCallsAlways(readyState) == TRUE

\* whether safeCloseWebSocket calls socket.close()
safeCloseCalls(readyState) ==
  readyState = WS_READY_STATE_OPEN \/ readyState = WS_READY_STATE_CLOSING

\* socket.close() is called without a status code or a reason
CloseArguments == <<>>

\* the first call of socket.close() sends the close frame; safeCloseWebSocket
\* makes the call when the ready state is Open or Closing
CloseCallsAfter(calls, readyState) ==
  IF safeCloseCalls(readyState) /\ calls = <<>> THEN << CloseArguments >> ELSE calls

\* the ready state safeCloseWebSocket leaves behind
safeCloseWebSocket(readyState, peerClosed) ==
  IF safeCloseCalls(readyState) THEN WsClose(readyState, peerClosed) ELSE readyState

\* whether safeCloseWebSocket raises to its caller when socket.close() threw:
\* the catch of lines 462-464 logs the error
SafeCloseRaises(closeThrew) == FALSE

\* --------------------------------------------------------- the peer's inputs
\* the VLESS request layout a client emits (section 4.1 of the design)
Encode(version, id, opts, command, port, addressType, addr, payload) ==
  <<version>> \o id \o <<Len(opts)>> \o opts \o <<command>>
  \o <<port \div 256, port % 256>> \o <<addressType>>
  \o (IF addressType = 2 THEN <<Len(addr)>> ELSE <<>>) \o addr \o payload

\* one base64url character for a sextet value
Base64UrlChar(v) ==
  IF v < 26 THEN 65 + v ELSE IF v < 52 THEN 71 + v ELSE IF v < 62 THEN v - 4
  ELSE IF v = 62 THEN 45 ELSE 95

\* base64url without padding, as a client writes it into sec-websocket-protocol
RECURSIVE Base64UrlEncode(_)
Base64UrlEncode(b) ==
  IF Len(b) >= 3
    THEN << Base64UrlChar(b[1] \div 4), Base64UrlChar((b[1] % 4) * 16 + b[2] \div 16),
            Base64UrlChar((b[2] % 16) * 4 + b[3] \div 64), Base64UrlChar(b[3] % 64) >>
         \o Base64UrlEncode(SubSeq(b, 4, Len(b)))
  ELSE IF Len(b) = 2
    THEN << Base64UrlChar(b[1] \div 4), Base64UrlChar((b[1] % 4) * 16 + b[2] \div 16),
            Base64UrlChar((b[2] % 16) * 4) >>
  ELSE IF Len(b) = 1
    THEN << Base64UrlChar(b[1] \div 4), Base64UrlChar((b[1] % 4) * 16) >>
  ELSE <<>>

\* identifiers: the built-in one, the one of the design's scenarios, one that
\* only the key-value store knows, and one nobody knows
IdDefault == <<85, 14, 132, 0, 226, 155, 65, 212, 167, 22, 68, 102, 85, 68, 0, 0>>
IdScenario == <<1, 2, 3, 4, 5, 6, 7, 8, 9, 10, 11, 12, 13, 14, 15, 16>>
IdStored == <<17, 34, 51, 68, 85, 102, 119, 136, 153, 170, 187, 204, 221, 238, 255, 0>>
IdUnknown == <<0, 0, 0, 0, 0, 0, 0, 0, 0, 0, 0, 0, 0, 0, 0, 0>>

\* env.UUID of the scenarios: '01020304-0506-0708-090a-0b0c0d0e0f10'
ScenarioUserID ==
  <<48, 49, 48, 50, 48, 51, 48, 52, 45, 48, 53, 48, 54, 45, 48, 55, 48, 56, 45,
    48, 57, 48, 97, 45, 48, 98, 48, 99, 48, 100, 48, 101, 48, 102, 49, 48>>

\* 'cdn.example', the fallback destination of the scenarios
CdnExample == <<99, 100, 110, 46, 101, 120, 97, 109, 112, 108, 101>>

\* the first chunks a peer may open a session with
ChunkHappy == Encode(0, IdScenario, <<>>, 1, 80, 1, <<127, 0, 0, 1>>, <<72, 73>>)
ChunkDefault == Encode(0, IdDefault, <<>>, 1, 80, 1, <<127, 0, 0, 1>>, <<72, 73>>)
ChunkStored == Encode(1, IdStored, <<9>>, 1, 443, 2, <<97, 46, 98>>, <<>>)
ChunkUnknown == Encode(0, IdUnknown, <<>>, 1, 80, 1, <<127, 0, 0, 1>>, <<72, 73>>)
ChunkUdp == Encode(0, IdScenario, <<>>, 2, 4433, 1, <<127, 0, 0, 1>>, <<>>)
ChunkDns == Encode(0, IdScenario, <<>>, 2, 53, 1, <<8, 8, 8, 8>>, <<7>>)
ChunkShort == SubSeq(ChunkHappy, 1, 20)

FirstChunks ==
  {ChunkHappy, ChunkDefault, ChunkStored, ChunkUnknown, ChunkUdp, ChunkDns, ChunkShort}

\* what the peer may send as its k-th later chunk: a payload chunk that names
\* its own position or, in a session opened for DNS, another request header
LaterChunks(k, dns) == {<<k>>} \cup (IF dns THEN {ChunkHappy} ELSE {})

\* the k-th chunk outbound socket i yields
RemoteChunk(i, k) == <<100 * i + k>>

\* a request cut after its twentieth byte
ChunkStoredShort == SubSeq(ChunkStored, 1, 20)

\* the chunks a client may send as early data: a whole request and a cut one;
\* the encoding of both needs padding, that of the second uses the URL alphabet
EarlyChunks == {ChunkHappy, ChunkStoredShort}

\* each early chunk with the text that carries it
EarlyPairs == {<<Base64UrlEncode(c), c>> : c \in EarlyChunks}

\* sec-websocket-protocol values: absent, a chunk in base64url, not base64
EarlyHeaders == {<<>>, <<33, 33>>} \cup {pr[1] : pr \in EarlyPairs}

\* request environments: nothing configured (the built-in identifier, no
\* fallback destination, no key-value backend), and the scenarios' identifier
\* with a fallback destination and the key-value backend bound
Envs ==
  { [UUID |-> <<>>, PROXYIP |-> <<>>, VLESS_KV |-> FALSE],
    [UUID |-> ScenarioUserID, PROXYIP |-> CdnExample, VLESS_KV |-> TRUE] }

\* ------------------------------------------------- the parser's inputs
\* UTF-8 of a text whose code points are below U+0800
RECURSIVE Utf8Encode(_)
Utf8Encode(text) ==
  IF text = <<>> THEN <<>>
  ELSE LET c == Head(text) IN
    (IF c < 128 THEN <<c>> ELSE <<192 + (c \div 64), 128 + (c % 64)>>)
    \o Utf8Encode(Tail(text))

\* a destination as a client holds it: four bytes, a name, eight 16-bit groups;
\* the bytes it puts into the request
AddressBytes(addressType, addr) ==
  CASE addressType = 1 -> addr
    [] addressType = 2 -> Utf8Encode(addr)
    [] addressType = 3 ->
         Concat([i \in 1..Len(addr) |-> <<addr[i] \div 256, addr[i] % 256>>])

\* the canonical text of section 3 of the design: dotted quad, the name,
\* colon-separated hexadecimal groups without zero compression
AddressText(addressType, addr) ==
  CASE addressType = 1 -> Join([i \in 1..Len(addr) |-> ToString10(addr[i])], <<46>>)
    [] addressType = 2 -> addr
    [] addressType = 3 -> Join([i \in 1..Len(addr) |-> ToString16(addr[i])], <<58>>)

EncodeRequest(t) ==
  Encode(t.version, t.id, t.opts, t.command, t.port, t.addressType,
         AddressBytes(t.addressType, t.addr), t.payload)

\* 127.0.0.1, 'a.b', 'e' with an acute accent (two bytes of UTF-8), 2001:db8::1
RequestAddresses ==
  { [addressType |-> 1, addr |-> <<127, 0, 0, 1>>],
    [addressType |-> 2, addr |-> <<97, 46, 98>>],
    [addressType |-> 2, addr |-> <<233>>],
    [addressType |-> 3, addr |-> <<8193, 3512, 0, 0, 0, 0, 0, 1>>] }

\* the requests a client may encode
Requests ==
  { [version |-> v, id |-> id, opts |-> [i \in 1..o |-> 9], command |-> c,
     port |-> p, addressType |-> a.addressType, addr |-> a.addr,
     payload |-> [i \in 1..n |-> 72]] :
      v \in {0, 1}, id \in {IdDefault, IdScenario, IdStored}, o \in 0..MaxOptLen,
      c \in {1, 2}, p \in {53, 443}, a \in RequestAddresses, n \in 0..MaxPayload }

\* no request: the buffer was not made by encoding one
NoRequest ==
  [version |-> 0, id |-> <<>>, opts |-> <<>>, command |-> 0, port |-> 0,
   addressType |-> 0, addr |-> <<>>, payload |-> <<>>]

\* buffers that are not encodings of a request: every proper prefix of one,
\* and headers cut or damaged in one field
RawBuffers ==
  { SubSeq(ChunkHappy, 1, n) : n \in 0..(Len(ChunkHappy) - 1) }
  \cup
  { \* the chunk ends after the command: no port
    <<0>> \o IdScenario \o <<5, 9, 9, 9, 9, 9, 1>>,
    \* IPv6 with ten of its sixteen bytes
    Encode(0, IdScenario, <<>>, 1, 80, 3, <<32, 1, 13, 184, 0, 0, 0, 0, 0, 0>>, <<>>),
    \* a name said to be five bytes long, two present
    <<0>> \o IdScenario \o <<0, 1, 0, 80, 2, 5, 97, 98>>,
    \* a name of length zero
    Encode(0, IdScenario, <<>>, 1, 80, 2, <<>>, <<72, 73>>),
    \* IPv4 with none of its bytes
    Encode(0, IdScenario, <<9, 9>>, 1, 80, 1, <<>>, <<>>),
    \* address type 4, command 3
    Encode(0, IdScenario, <<>>, 1, 80, 4, <<1, 2, 3, 4>>, <<>>),
    Encode(0, IdScenario, <<>>, 3, 80, 1, <<127, 0, 0, 1>>, <<>>),
    \* names that are not UTF-8
    Encode(0, IdScenario, <<>>, 1, 443, 2, <<255>>, <<>>),
    Encode(0, IdScenario, <<>>, 1, 443, 2, <<254>>, <<>>),
    \* other option bytes
    Encode(0, IdScenario, <<8>>, 1, 443, 1, <<127, 0, 0, 1>>, <<>>) }

\* the chunks a second call of the parser is compared on
SecondBuffers ==
  { Encode(0, IdScenario, <<9>>, 1, 443, 1, <<127, 0, 0, 1>>, <<>>),
    Encode(0, IdScenario, <<>>, 1, 443, 2, <<255>>, <<>>),
    Encode(0, IdScenario, <<>>, 1, 443, 2, <<97, 46, 98>>, <<>>),
    Encode(0, IdScenario, <<9>>, 1, 443, 1, <<12, 70, 0, 1>>, <<>>) }

\* the identity store a call of the parser runs against: nothing configured,
\* or the scenarios' identifier with a key-value backend holding one key
ParserWorlds ==
  { [env |-> [UUID |-> <<>>, PROXYIP |-> <<>>, VLESS_KV |-> FALSE], store |-> {}],
    [env |-> [UUID |-> ScenarioUserID, PROXYIP |-> CdnExample, VLESS_KV |-> TRUE],
     store |-> {stringify(IdStored)}] }

\* ------------------------------------------ the management requests' inputs
\* the 8-4-4-4-12 lowercase text of an identifier
UuidText(id) ==
  Join(<< stringify(SubSeq(id, 1, 4)), stringify(SubSeq(id, 5, 6)),
          stringify(SubSeq(id, 7, 8)), stringify(SubSeq(id, 9, 10)),
          stringify(SubSeq(id, 11, 16)) >>, <<45>>)

\* the same text with the digits a-f in upper case
UpperCase(text) ==
  [i \in 1..Len(text) |-> IF text[i] >= 97 /\ text[i] <= 102 THEN text[i] - 32 ELSE text[i]]

\* the value of a hexadecimal digit of either case
HexValue(c) ==
  IF c >= 48 /\ c <= 57 THEN c - 48
  ELSE IF c >= 97 /\ c <= 102 THEN c - 87
  ELSE c - 55

\* the 16 bytes a uuid text stands for
UuidBytes(text) ==
  LET h == StripDashes(text) IN
    [i \in 1..(Len(h) \div 2) |-> HexValue(h[2 * i - 1]) * 16 + HexValue(h[2 * i])]

\* the uuid a create request may carry: with and without dashes, in lower and
\* in upper case
CreateUuids ==
  { UuidText(IdStored), UpperCase(UuidText(IdStored)),
    StripDashes(UuidText(IdStored)), UuidText(IdUnknown) }

\* the uuid a delete request may carry: the same forms
DeleteUuids == CreateUuids

\* ------------------------------------------------- the requests fetch takes
\* 'websocket', 'WebSocket' and 'h2c'
Websocket == <<119, 101, 98, 115, 111, 99, 107, 101, 116>>
WebSocketMixedCase == <<87, 101, 98, 83, 111, 99, 107, 101, 116>>
H2c == <<104, 50, 99>>

\* the Upgrade header of a request: absent, or one of the values above
UpgradeHeaders == {<<>>, Websocket, WebSocketMixedCase, H2c}

\* requests: the Upgrade header, the method, the path, the uuid of the body
HttpRequests ==
  [upgrade : UpgradeHeaders,
   method : {"GET", "POST", "OPTIONS"},
   pathname : {"/", "/api/accounts", "/api/create", "/api/delete"},
   uuid : {UuidText(IdStored), UpperCase(UuidText(IdStored))}]

\* the deployment with the key-value backend bound
KvEnv == [UUID |-> ScenarioUserID, PROXYIP |-> CdnExample, VLESS_KV |-> TRUE]

\* the first chunks of the sessions that follow
AccountChunks == {ChunkStored, ChunkUnknown, ChunkHappy, ChunkDefault}

\* =========================================================== session state
VARIABLES
  userID,               \* module-level let userID
  proxyIP,              \* module-level let proxyIP
  env,                  \* the env of the request that opened the session
  kvStore,              \* keys of env.VLESS_KV
  phase,                \* "idle" before the upgrade request, "session" after
  wsReadyState,         \* webSocket.readyState of the server side
  wsCloseCalls,         \* the arguments of the first call of socket.close()
  peerClosed,           \* the peer's close has been received
  wsErrored,            \* the 'error' event has been raised
  secWebSocketProtocol, \* the sec-websocket-protocol header of the upgrade request
  msgCount,             \* inbound chunks so far: early data and 'message' events
  stream,               \* readableWebSocketStream: state, queue, close requested
  readableStreamCancel, \* the flag of makeReadableWebSocketStream
  pipe,                 \* the pipeTo of vlessOverWSHandler: "active" or "done"
  sinkPc,               \* its write handler: "idle" or awaiting writer.write
  remoteSocketWrapper,  \* index into socks, 0 for null
  isDns,
  currentVlessVersion,
  tcp,                  \* the arguments handleTCPOutBound closed over
  socks,                \* the sockets connect() returned, oldest first
  dials,                \* every call of connect(): hostname and port
  wsSendCalls,          \* every call of webSocket.send: socket read, chunk, whether Open
  sinkLog,              \* every chunk the write handler took, what it did, and
                        \* whether 'KV check error' was logged for it
  request,              \* the request a client encoded into vlessBuffers[1]
  vlessBuffers,         \* the buffers processVlessHeader is called on
  parsed,               \* what the calls returned or threw
  vlessHeader,          \* what Utils.parseVLESSHeader of src/unnamed/part_000 returned
  created,              \* the uuid of every /api/create request that succeeded, not deleted since
  deleted,              \* the uuid of every /api/delete request that succeeded, not created since
  dispatched,           \* the last request fetch took in DispatchSpec and the handler it reached
  closeLog,             \* every call of safeCloseWebSocket in CloseSpec
  handshake,            \* the session of handleWebSocketUpgrade of src/unnamed/part_000
  worker,               \* the VLESSWorker of src/unnamed/part_000: connections and stats
  connection,           \* one VLESSConnection of src/unnamed/part_000
  tunnel                \* a session of one of the two programs of src/worker.js

vars ==
  << userID, proxyIP, env, kvStore, phase, wsReadyState, wsCloseCalls, peerClosed, wsErrored,
     secWebSocketProtocol, msgCount, stream, readableStreamCancel, pipe, sinkPc, remoteSocketWrapper,
     isDns, currentVlessVersion, tcp, socks, dials, wsSendCalls, sinkLog,
     request, vlessBuffers, parsed, vlessHeader, created, deleted, dispatched, closeLog,
     handshake, worker, connection, tunnel >>

\* the state outside the tunnel session: the management interface, the
\* dispatcher, safeCloseWebSocket on its own, the other program's session
apiVars ==
  << created, deleted, dispatched, closeLog, handshake, worker, connection, tunnel >>

\* the state of the parser's calls
parserVars == << request, vlessBuffers, parsed, vlessHeader >>

\* the state of the tunnel session
sessionVars ==
  << proxyIP, phase, wsReadyState, wsCloseCalls, peerClosed, wsErrored, secWebSocketProtocol,
     msgCount, stream,
     readableStreamCancel, pipe, sinkPc, remoteSocketWrapper, isDns,
     currentVlessVersion, tcp, socks, dials, wsSendCalls, sinkLog >>

NoEnv == [UUID |-> <<>>, PROXYIP |-> <<>>, VLESS_KV |-> FALSE]
NoTcp == [addressRemote |-> <<>>, portRemote |-> 0, rawClientData |-> <<>>,
          vlessResponseHeader |-> <<>>]

\* Utils.parseVLESSHeader has not been called; it returned null
NotParsed ==
  [kind |-> "none", version |-> 0, uuid |-> <<>>, command |-> 0, address |-> <<>>,
   port |-> 0, offset |-> 0]
NullHeader == [NotParsed EXCEPT !.kind = "null"]

\* no upgrade request has reached handleWebSocketUpgrade
NoHandshake ==
  [pc |-> "idle", configUUID |-> <<>>, clientChunk |-> <<>>, clientSent |-> FALSE,
   responseStatus |-> 0, closeCode |-> 0, connects |-> <<>>,
   targetWrites |-> <<>>]

\* the VLESSWorker as constructed (lines 293-301): no connection, counters 0;
\* closedHandlers holds the connections whose server.closed handler waits
NoWorker ==
  [connections |-> {},
   stats |-> [totalConnections |-> 0, activeConnections |-> 0],
   closedHandlers |-> {}]

\* no VLESSConnection has been constructed
NoConnection ==
  [pc |-> "none", platform |-> "unbound", isActive |-> FALSE, socket |-> "none",
   closedHandler |-> FALSE, targetSocket |-> "null", websocket |-> "open",
   read |-> "none", events |-> 0, messages |-> 0,
   cleanups |-> 0, targetCloses |-> 0, websocketCloses |-> 0, statsLogged |-> 0,
   forwarded |-> <<>>]

\* no session of src/worker.js has been opened; residual is
\* chunk.slice(rawDataIndex) of the chunk that was accepted as a header
NoTunnel ==
  [variant |-> 0, userID |-> <<>>, env |-> NoEnv, inbox |-> <<>>, received |-> 0,
   remoteSocketWapper |-> "null", isDns |-> FALSE, dial |-> "none",
   residual |-> <<>>, outbound |-> <<>>, pump |-> FALSE, connects |-> <<>>,
   wsCloses |-> 0, pipe |-> "none", log |-> <<>>]

\* no request dispatched
NoDispatch == [upgrade |-> <<>>, method |-> "", pathname |-> "", handler |-> "none"]

\* a call that has not been made
NotCalled == [HdrError("") EXCEPT !.kind = "none"]

\* no call of the parser is under way
ParserIdle ==
  /\ request = NoRequest
  /\ vlessBuffers = <<>>
  /\ parsed = << NotCalled, NotCalled, NotCalled, NotCalled >>
  /\ vlessHeader = NotParsed

\* no session yet
SessionIdle ==
  /\ proxyIP = DefaultProxyIP
  /\ phase = "idle"
  /\ wsReadyState = WS_READY_STATE_OPEN
  /\ wsCloseCalls = <<>>
  /\ peerClosed = FALSE
  /\ wsErrored = FALSE
  /\ secWebSocketProtocol = <<>>
  /\ msgCount = 0
  /\ stream = [state |-> "readable", queue |-> <<>>, closeRequested |-> FALSE]
  /\ readableStreamCancel = FALSE
  /\ pipe = "active"
  /\ sinkPc = "idle"
  /\ remoteSocketWrapper = 0
  /\ isDns = FALSE
  /\ currentVlessVersion = <<0, 0>>
  /\ tcp = NoTcp
  /\ socks = <<>>
  /\ dials = <<>>
  /\ wsSendCalls = <<>>
  /\ sinkLog = <<>>

Init ==
  /\ userID = DefaultUserID
  /\ env = NoEnv
  /\ kvStore = {stringify(IdStored)}
  /\ SessionIdle
  /\ ParserIdle
  /\ created = {}
  /\ deleted = {}
  /\ dispatched = NoDispatch
  /\ closeLog = <<>>
  /\ handshake = NoHandshake
  /\ worker = NoWorker
  /\ connection = NoConnection
  /\ tunnel = NoTunnel

\* let udpStreamWrite = null, never assigned
udpStreamWrite == FALSE

\* ------------------------------------------------------------------ fetch
\* fault variant: the decoded early data is not enqueued
StreamStartDropsEarlyData(earlyDataHeader) ==
  IF base64ToArrayBuffer(earlyDataHeader).error
    THEN [state |-> "errored", queue |-> <<>>, closeRequested |-> FALSE]
    ELSE [state |-> "readable", queue |-> <<>>, closeRequested |-> FALSE]

\* start() of makeReadableWebSocketStream: the listeners are registered and the
\* early-data header is decoded; a decode error errors the stream, decoded
\* bytes are enqueued as the first chunk
StreamStart(earlyDataHeader) ==
  LET r == base64ToArrayBuffer(earlyDataHeader) IN
    IF r.error THEN [state |-> "errored", queue |-> <<>>, closeRequested |-> FALSE]
    ELSE IF r.hasEarlyData
      THEN [state |-> "readable", queue |-> <<r.earlyData>>, closeRequested |-> FALSE]
    ELSE [state |-> "readable", queue |-> <<>>, closeRequested |-> FALSE]

\* fetch for an upgrade request: the module-level identifier and fallback are
\* overwritten from env, then vlessOverWSHandler accepts the WebSocket, builds
\* the stream and pipes it to the write handler; a stream that starts errored
\* ends the pipe at once
UpgradeAccepted(e, earlyDataHeader) ==
  /\ phase = "idle"
  /\ phase' = "session"
  /\ env' = e
  /\ userID' = IF e.UUID # <<>> THEN e.UUID ELSE userID
  /\ proxyIP' = IF e.PROXYIP # <<>> THEN e.PROXYIP ELSE proxyIP
  /\ stream' = StreamStart(earlyDataHeader)
  /\ pipe' = IF stream'.state = "errored" THEN "done" ELSE "active"
  /\ msgCount' = Len(stream'.queue)
  /\ secWebSocketProtocol' = earlyDataHeader
  /\ UNCHANGED parserVars
  /\ UNCHANGED << kvStore, wsReadyState, wsCloseCalls, peerClosed, wsErrored,
                  readableStreamCancel, sinkPc, remoteSocketWrapper, isDns,
                  currentVlessVersion, tcp, socks, dials, wsSendCalls, sinkLog >>

\* an upgrade request of a session on its own
FetchUpgrade(e, earlyDataHeader) ==
  /\ UpgradeAccepted(e, earlyDataHeader)
  /\ UNCHANGED apiVars

\* ------------------------------------------- makeReadableWebSocketStream
\* pipeTo finishes once the source is closed or errored and no write of the
\* sink is in flight
PipeAfter(strm, pc, p) ==
  IF p = "active" /\ pc = "idle" /\ strm.state # "readable" THEN "done" ELSE p

\* the first chunk of a session is a request header; later ones are payload
NothingReceived == msgCount = 0 /\ stream.queue = <<>> /\ sinkLog = <<>>

\* what the peer may send next
MessageChoices == IF NothingReceived THEN FirstChunks ELSE LaterChunks(msgCount, isDns)

\* everything the peer may ever send
AllMessages == FirstChunks \cup UNION {LaterChunks(k, TRUE) : k \in 0..MaxMsgs}

\* the 'message' listener
ClientMessage(m) ==
  /\ phase = "session"
  /\ m \in MessageChoices
  /\ ~peerClosed
  /\ msgCount < MaxMsgs
  /\ msgCount' = msgCount + 1
  /\ IF readableStreamCancel
       THEN UNCHANGED stream
       ELSE IF stream.state = "readable" /\ ~stream.closeRequested
         THEN stream' = [stream EXCEPT !.queue = Append(@, m)]
         ELSE UNCHANGED stream   \* controller.enqueue throws inside the listener
  /\ UNCHANGED << parserVars, apiVars, secWebSocketProtocol >>
  /\ UNCHANGED << userID, proxyIP, env, kvStore, phase, wsReadyState, wsCloseCalls, peerClosed,
                  wsErrored, readableStreamCancel, pipe, sinkPc,
                  remoteSocketWrapper, isDns, currentVlessVersion, tcp, socks,
                  dials, wsSendCalls, sinkLog >>

\* the 'close' listener
ClientClose ==
  /\ phase = "session"
  /\ ~peerClosed
  /\ peerClosed' = TRUE
  /\ \E rs \in {WS_READY_STATE_CLOSING, WS_READY_STATE_CLOSED} :
       /\ wsReadyState' = safeCloseWebSocket(rs, TRUE)
       /\ wsCloseCalls' = CloseCallsAfter(wsCloseCalls, rs)
  /\ IF readableStreamCancel \/ stream.state # "readable" \/ stream.closeRequested
       THEN UNCHANGED stream
       ELSE stream' = IF stream.queue = <<>>
                        THEN [stream EXCEPT !.state = "closed"]
                        ELSE [stream EXCEPT !.closeRequested = TRUE]
  /\ pipe' = PipeAfter(stream', sinkPc, pipe)
  /\ UNCHANGED << parserVars, apiVars, secWebSocketProtocol >>
  /\ UNCHANGED << userID, proxyIP, env, kvStore, phase, wsErrored, msgCount,
                  readableStreamCancel, sinkPc, remoteSocketWrapper, isDns,
                  currentVlessVersion, tcp, socks, dials, wsSendCalls, sinkLog >>

\* the 'error' listener
ClientError ==
  /\ phase = "session"
  /\ ~peerClosed
  /\ ~wsErrored
  /\ wsErrored' = TRUE
  /\ stream' = IF stream.state = "readable"
                 THEN [stream EXCEPT !.state = "errored", !.queue = <<>>]
                 ELSE stream
  /\ pipe' = PipeAfter(stream', sinkPc, pipe)
  /\ UNCHANGED << parserVars, apiVars, secWebSocketProtocol >>
  /\ UNCHANGED << userID, proxyIP, env, kvStore, phase, wsReadyState, wsCloseCalls, peerClosed,
                  msgCount, readableStreamCancel, sinkPc, remoteSocketWrapper,
                  isDns, currentVlessVersion, tcp, socks, dials, wsSendCalls,
                  sinkLog >>

\* the write handler threw or rejected: pipeTo cancels the source, whose
\* cancel() sets the flag and closes the WebSocket; a source that is already
\* closed or errored is not cancelled
SinkThrew(strm) ==
  /\ sinkPc' = "idle"
  /\ pipe' = "done"
  /\ IF strm.state = "readable"
       THEN /\ stream' = [strm EXCEPT !.state = "closed", !.queue = <<>>]
            /\ IF readableStreamCancel
                 THEN UNCHANGED << readableStreamCancel, wsReadyState, wsCloseCalls >>
                 ELSE /\ readableStreamCancel' = TRUE
                      /\ wsReadyState' = safeCloseWebSocket(wsReadyState, peerClosed)
                      /\ wsCloseCalls' = CloseCallsAfter(wsCloseCalls, wsReadyState)
       ELSE /\ stream' = strm
            /\ UNCHANGED << readableStreamCancel, wsReadyState, wsCloseCalls >>

\* ------------------------------------------------------ handleTCPOutBound
\* connect() and the synchronous head of connectAndWrite: the socket becomes
\* remoteSocket.value, its writer is taken and the write of the response
\* header is awaited
NewSocket(hostname, port, header, isRetry) ==
  [hostname |-> hostname, port |-> port, st |-> "open", locked |-> TRUE,
   wq |-> << [data |-> header, owner |-> "hdr"] >>, written |-> <<>>,
   rq |-> <<>>, yielded |-> 0, pumped |-> 0, closedHandler |-> "none", pump |-> "none",
   hasIncomingData |-> FALSE, retry |-> FALSE, co |-> "hdr", isRetry |-> isRetry]

\* fault variant: retry() hands itself on to remoteSocketToWS
RetryOfRetryHandsRetry == TRUE

\* fault variant: the retry always dials proxyIP, set or not
RetryHostnameProxyOnly(pIP, addressRemote) == pIP

\* fault variant: every UDP port is taken for DNS
IsDnsPortAny(portRemote) == TRUE

\* fault variant: the pump sends each chunk twice
PumpSendsTwice(i, chunk, open) ==
  << [sock |-> i, chunk |-> chunk, open |-> open],
     [sock |-> i, chunk |-> chunk, open |-> open] >>

\* the retry argument handleTCPOutBound hands to remoteSocketToWS (line 359)
\* and the one retry() hands to it (null, line 346)
RetryOfPrimary == TRUE
RetryOfRetry == FALSE

\* proxyIP || addressRemote (line 333)
RetryHostname(pIP, addressRemote) == IF pIP # <<>> THEN pIP ELSE addressRemote

\* portRemote === 53 (line 137)
IsDnsPort(portRemote) == portRemote = 53

\* the calls of webSocket.send the pump makes for one chunk (line 379)
PumpSends(i, chunk, open) == << [sock |-> i, chunk |-> chunk, open |-> open] >>

\* the write handler of vlessOverWSHandler on a chunk when
\* remoteSocketWrapper.value is set: take the writer, await the write
ForwardChunk(chunk, strm) ==
  /\ remoteSocketWrapper # 0
  /\ ~(isDns /\ udpStreamWrite)
  /\ LET i == remoteSocketWrapper
         s == socks[i]
     IN  IF s.locked
           THEN \* getWriter() throws: the writable is locked
                /\ SinkThrew(strm)
                /\ sinkLog' = Append(sinkLog,
                     [chunk |-> chunk,
                      did |-> IF s.co \in {"hdr", "raw"} THEN "lockedDialing" ELSE "locked",
                      kvError |-> FALSE])
                /\ UNCHANGED socks
           ELSE IF s.st # "open"
             THEN \* the writer is taken, the write rejects, the lock stays
                  /\ SinkThrew(strm)
                  /\ sinkLog' = Append(sinkLog, [chunk |-> chunk, did |-> "writeFailed", kvError |-> FALSE])
                  /\ socks' = [socks EXCEPT ![i].locked = TRUE]
             ELSE /\ socks' = [socks EXCEPT ![i].locked = TRUE,
                                            ![i].wq = Append(@, [data |-> chunk, owner |-> "fwd"])]
                  /\ sinkPc' = "fwdWait"
                  /\ stream' = strm
                  /\ sinkLog' = Append(sinkLog,
                       [chunk |-> chunk, did |-> "forward", kvError |-> FALSE])
                  /\ UNCHANGED << pipe, readableStreamCancel, wsReadyState, wsCloseCalls >>
  /\ UNCHANGED << isDns, currentVlessVersion, tcp, dials, remoteSocketWrapper >>

\* the write handler on a chunk when no outbound socket is set: parse the
\* header, reject, mark DNS, or start handleTCPOutBound
HeaderChunk(chunk, strm) ==
  /\ remoteSocketWrapper = 0
  /\ ~(isDns /\ udpStreamWrite)
  /\ \E kvFails \in BOOLEAN :
     LET r == processVlessHeader(chunk, userID, env, kvStore, kvFails)
         ok == r.kind = "return" /\ ~r.hasError
         udpRejected == ok /\ r.isUDP /\ ~IsDnsPort(r.portRemote)
         dns == (ok /\ r.isUDP /\ IsDnsPort(r.portRemote)) \/ isDns
         logged == ~TooShort(chunk) /\ KvCheckError(chunk, userID, env, kvFails)
     IN
     /\ currentVlessVersion' =
          IF r.kind = "return" /\ r.vlessVersion # <<>> THEN r.vlessVersion
          ELSE currentVlessVersion
     /\ IF ~ok \/ udpRejected
          THEN /\ SinkThrew(strm)
               /\ sinkLog' = Append(sinkLog,
                    [chunk |-> chunk,
                     did |-> IF udpRejected THEN "udpRejected"
                             ELSE IF r.kind = "throw" THEN "parseThrew" ELSE r.message,
                     kvError |-> logged])
               /\ UNCHANGED << isDns, tcp, socks, dials, remoteSocketWrapper >>
          ELSE IF dns
            THEN /\ isDns' = TRUE
                 /\ stream' = strm
                 /\ pipe' = PipeAfter(strm, "idle", pipe)
                 /\ sinkLog' = Append(sinkLog, [chunk |-> chunk, did |-> "dns", kvError |-> logged])
                 /\ UNCHANGED << sinkPc, readableStreamCancel, wsReadyState, wsCloseCalls, tcp,
                                 socks, dials, remoteSocketWrapper >>
            ELSE LET header == << r.vlessVersion[1], 0 >>
                     raw == SliceFrom(chunk, r.rawDataIndex)
                 IN /\ tcp' = [addressRemote |-> r.addressRemote,
                               portRemote |-> r.portRemote,
                               rawClientData |-> raw,
                               vlessResponseHeader |-> header]
                    /\ socks' = Append(socks,
                         NewSocket(r.addressRemote, r.portRemote, header, FALSE))
                    /\ dials' = Append(dials, << r.addressRemote, r.portRemote >>)
                    /\ remoteSocketWrapper' = Len(socks) + 1
                    /\ stream' = strm
                    /\ pipe' = PipeAfter(strm, "idle", pipe)
                    /\ sinkLog' = Append(sinkLog,
                         [chunk |-> chunk, did |-> "tcp", kvError |-> logged])
                    /\ UNCHANGED << isDns, sinkPc, readableStreamCancel, wsReadyState, wsCloseCalls >>

\* pipeTo hands the next queued chunk to the write handler
SinkWrite ==
  /\ phase = "session"
  /\ pipe = "active"
  /\ sinkPc = "idle"
  /\ stream.state = "readable"
  /\ stream.queue # <<>>
  /\ LET chunk == Head(stream.queue)
         rest == Tail(stream.queue)
         strm == [stream EXCEPT !.queue = rest,
                                !.state = IF rest = <<>> /\ stream.closeRequested
                                            THEN "closed" ELSE "readable"]
     IN  \/ ForwardChunk(chunk, strm)
         \/ HeaderChunk(chunk, strm)
  /\ UNCHANGED << parserVars, apiVars, secWebSocketProtocol >>
  /\ UNCHANGED << userID, proxyIP, env, kvStore, phase, peerClosed, wsErrored,
                  msgCount, wsSendCalls >>

\* ------------------------------------------------------- outbound sockets
\* the runtime completes the oldest pending write of socket i; the code that
\* awaited it continues: connectAndWrite writes the client data after the
\* response header, then releases the writer and returns, whereupon its caller
\* (handleTCPOutBound or retry) subscribes to tcpSocket.closed and starts
\* remoteSocketToWS; the write handler releases the writer and returns
SockWriteDone(i) ==
  /\ i \in 1..Len(socks)
  /\ socks[i].st = "open"
  /\ socks[i].wq # <<>>
  /\ LET s == socks[i]
         w == Head(s.wq)
         s1 == [s EXCEPT !.written = @ \o w.data, !.wq = Tail(@)]
     IN  CASE w.owner = "hdr" ->
                /\ socks' = [socks EXCEPT ![i] =
                     [s1 EXCEPT !.wq = Append(@, [data |-> tcp.rawClientData, owner |-> "raw"]),
                                !.co = "raw"]]
                /\ UNCHANGED << sinkPc, pipe >>
           [] w.owner = "raw" ->
                /\ socks' = [socks EXCEPT ![i] =
                     [s1 EXCEPT !.locked = FALSE, !.co = "done",
                                !.closedHandler = "installed", !.pump = "running",
                                !.retry = IF s.isRetry THEN RetryOfRetry ELSE RetryOfPrimary]]
                /\ UNCHANGED << sinkPc, pipe >>
           [] w.owner = "fwd" ->
                /\ socks' = [socks EXCEPT ![i] = [s1 EXCEPT !.locked = FALSE]]
                /\ sinkPc' = "idle"
                /\ pipe' = PipeAfter(stream, "idle", pipe)
  /\ UNCHANGED << parserVars, apiVars, secWebSocketProtocol >>
  /\ UNCHANGED << userID, proxyIP, env, kvStore, phase, wsReadyState, wsCloseCalls, peerClosed,
                  wsErrored, msgCount, stream, readableStreamCancel,
                  remoteSocketWrapper, isDns, currentVlessVersion, tcp, dials,
                  wsSendCalls, sinkLog >>

\* the destination sends a chunk; it waits in the socket's readable
SockData(i) ==
  /\ i \in 1..Len(socks)
  /\ socks[i].st = "open"
  /\ socks[i].yielded < MaxRemoteChunks
  /\ socks' = [socks EXCEPT ![i].yielded = @ + 1,
                            ![i].rq = Append(@, RemoteChunk(i, socks[i].yielded + 1))]
  /\ UNCHANGED << parserVars, apiVars, secWebSocketProtocol >>
  /\ UNCHANGED << userID, proxyIP, env, kvStore, phase, wsReadyState, wsCloseCalls, peerClosed,
                  wsErrored, msgCount, stream, readableStreamCancel, pipe, sinkPc,
                  remoteSocketWrapper, isDns, currentVlessVersion, tcp, dials,
                  wsSendCalls, sinkLog >>

\* socket i ends, cleanly (how = "closed") or with an error such as a failed
\* dial (how = "errored"): its pending write rejects in the code awaiting it.
\* connectAndWrite then throws out of handleTCPOutBound or retry, which nobody
\* awaits, with the writer still held; the write handler throws into pipeTo.
SockEnd(i, how) ==
  /\ i \in 1..Len(socks)
  /\ socks[i].st = "open"
  /\ LET s == socks[i]
         owner == IF s.wq = <<>> THEN "none" ELSE Head(s.wq).owner
     IN  /\ socks' = [socks EXCEPT ![i] =
               [s EXCEPT !.st = how, !.wq = <<>>,
                         !.rq = IF how = "errored" THEN <<>> ELSE @,
                         !.co = IF owner \in {"hdr", "raw"} THEN "failed" ELSE @]]
         /\ IF owner = "fwd"
              THEN SinkThrew(stream)
              ELSE UNCHANGED << stream, sinkPc, pipe, readableStreamCancel, wsReadyState, wsCloseCalls >>
  /\ UNCHANGED << parserVars, apiVars, secWebSocketProtocol >>
  /\ UNCHANGED << userID, proxyIP, env, kvStore, phase, peerClosed, wsErrored,
                  msgCount, remoteSocketWrapper, isDns, currentVlessVersion, tcp,
                  dials, wsSendCalls, sinkLog >>

\* fault variant: the handler on tcpSocket.closed does not close the WebSocket
ClosedFinallyLeavesOpen(i) ==
  /\ i \in 1..Len(socks)
  /\ socks[i].closedHandler = "installed"
  /\ socks[i].st # "open"
  /\ socks' = [socks EXCEPT ![i].closedHandler = "ran"]
  /\ UNCHANGED << parserVars, apiVars, secWebSocketProtocol >>
  /\ UNCHANGED << userID, proxyIP, env, kvStore, phase, peerClosed, wsErrored,
                  msgCount, stream, readableStreamCancel, pipe, sinkPc,
                  remoteSocketWrapper, isDns, currentVlessVersion, tcp, dials,
                  wsSendCalls, sinkLog, wsReadyState, wsCloseCalls >>

\* tcpSocket.closed.catch(...).finally(() => safeCloseWebSocket(webSocket))
ClosedFinally(i) ==
  /\ i \in 1..Len(socks)
  /\ socks[i].closedHandler = "installed"
  /\ socks[i].st # "open"
  /\ socks' = [socks EXCEPT ![i].closedHandler = "ran"]
  /\ wsReadyState' = safeCloseWebSocket(wsReadyState, peerClosed)
  /\ wsCloseCalls' = CloseCallsAfter(wsCloseCalls, wsReadyState)
  /\ UNCHANGED << parserVars, apiVars, secWebSocketProtocol >>
  /\ UNCHANGED << userID, proxyIP, env, kvStore, phase, peerClosed, wsErrored,
                  msgCount, stream, readableStreamCancel, pipe, sinkPc,
                  remoteSocketWrapper, isDns, currentVlessVersion, tcp, dials,
                  wsSendCalls, sinkLog >>

\* -------------------------------------------------------- remoteSocketToWS
\* the write handler of the downstream pipeTo on the next chunk of socket i:
\* when the WebSocket is not Open the controller is errored, and send is
\* called all the same; the pipe then fails and the await returns
PumpWrite(i) ==
  /\ i \in 1..Len(socks)
  /\ socks[i].pump = "running"
  /\ socks[i].rq # <<>>
  /\ LET s == socks[i]
         chunk == Head(s.rq)
         open == wsReadyState = WS_READY_STATE_OPEN
     IN  /\ wsSendCalls' = wsSendCalls \o PumpSends(i, chunk, open)
         /\ socks' = [socks EXCEPT ![i] =
               [s EXCEPT !.hasIncomingData = TRUE,
                         !.pumped = @ + 1,
                         !.rq = IF open THEN Tail(@) ELSE <<>>,
                         !.pump = IF open THEN "running" ELSE "ended"]]
  /\ UNCHANGED << parserVars, apiVars, secWebSocketProtocol >>
  /\ UNCHANGED << userID, proxyIP, env, kvStore, phase, wsReadyState, wsCloseCalls, peerClosed,
                  wsErrored, msgCount, stream, readableStreamCancel, pipe, sinkPc,
                  remoteSocketWrapper, isDns, currentVlessVersion, tcp, dials,
                  sinkLog >>

\* fault variant: the retry runs whether or not a chunk has arrived
RetryRunsAfterData(hasIncomingData, retry) == retry

\* hasIncomingData === false && retry (line 393)
RetryRuns(hasIncomingData, retry) == hasIncomingData = FALSE /\ retry

\* the readable of socket i has ended: pipeTo settles, and when no chunk ever
\* arrived and a retry was given, retry() runs: connectAndWrite to
\* proxyIP || addressRemote on the same port
PumpEnd(i) ==
  /\ i \in 1..Len(socks)
  /\ socks[i].pump = "running"
  /\ \/ socks[i].st = "closed" /\ socks[i].rq = <<>>
     \/ socks[i].st = "errored"
  /\ LET s == socks[i]
         ended == [socks EXCEPT ![i].pump = "ended"]
     IN  IF RetryRuns(s.hasIncomingData, s.retry) /\ Len(socks) < MaxSocks
           THEN LET hostname == RetryHostname(proxyIP, tcp.addressRemote) IN
                /\ socks' = Append(ended,
                     NewSocket(hostname, tcp.portRemote, tcp.vlessResponseHeader, TRUE))
                /\ dials' = Append(dials, << hostname, tcp.portRemote >>)
                /\ remoteSocketWrapper' = Len(socks) + 1
           ELSE /\ socks' = ended
                /\ UNCHANGED << dials, remoteSocketWrapper >>
  /\ UNCHANGED << parserVars, apiVars, secWebSocketProtocol >>
  /\ UNCHANGED << userID, proxyIP, env, kvStore, phase, wsReadyState, wsCloseCalls, peerClosed,
                  wsErrored, msgCount, stream, readableStreamCancel, pipe, sinkPc,
                  isDns, currentVlessVersion, tcp, wsSendCalls, sinkLog >>

\* ------------------------------------------------------------ specification
Next ==
  \/ \E e \in Envs, h \in EarlyHeaders : FetchUpgrade(e, h)
  \/ \E m \in AllMessages : ClientMessage(m)
  \/ ClientClose
  \/ ClientError
  \/ SinkWrite
  \/ \E i \in 1..MaxSocks : SockWriteDone(i)
  \/ \E i \in 1..MaxSocks : SockData(i)
  \/ \E i \in 1..MaxSocks, how \in {"closed", "errored"} : SockEnd(i, how)
  \/ \E i \in 1..MaxSocks : ClosedFinally(i)
  \/ \E i \in 1..MaxSocks : PumpWrite(i)
  \/ \E i \in 1..MaxSocks : PumpEnd(i)

Spec == Init /\ [][Next]_vars

\* ------------------------------------------------ requests of other clients
\* fetch for a request that is not the session's, handled by the same module
\* instance before the session's upgrade or while the session runs: the
\* module-level userID and proxyIP are overwritten from the env it was called
\* with (lines 20-25); whatever it answers is not the session's
OtherFetch(e) ==
  /\ userID' = IF e.UUID # <<>> THEN e.UUID ELSE userID
  /\ proxyIP' = IF e.PROXYIP # <<>> THEN e.PROXYIP ELSE proxyIP
  /\ UNCHANGED << env, kvStore, phase, wsReadyState, wsCloseCalls, peerClosed,
                  wsErrored, secWebSocketProtocol, msgCount, stream,
                  readableStreamCancel, pipe, sinkPc, remoteSocketWrapper, isDns,
                  currentVlessVersion, tcp, socks, dials, wsSendCalls, sinkLog >>
  /\ UNCHANGED << parserVars, apiVars >>

\* one session among the requests of other clients
SharedNext ==
  \/ Next
  \/ \E e \in Envs : OtherFetch(e)

SharedSpec == Init /\ [][SharedNext]_vars

\* ------------------------------------------- src/worker.js: the sessions
\* src/worker.js holds two programs: the first (lines 1-456) with a constant
\* identifier, the second (lines 457-1224) with env and the key-value
\* backend. One session of either: the write handler of the upstream pipeTo
\* and the dial of handleTCPOutBound.

\* the bytes of the first program's identifier
IdWorker1 == <<144, 205, 74, 119, 20, 26, 67, 201, 153, 27, 8, 38, 60, 254, 156, 16>>

\* proxyIPs of the first program (line 5)
Worker1ProxyIPs ==
  { <<99, 100, 110, 46, 120, 110, 45, 45, 98, 54, 103, 97, 99, 46, 101, 117, 46,
      111, 114, 103>>,
    <<99, 100, 110, 45, 97, 108, 108, 46, 120, 110, 45, 45, 98, 54, 103, 97, 99,
      46, 101, 117, 46, 111, 114, 103>> }

\* the environments of the second program: those of the scenarios, and the
\* scenarios' identifier written without dashes
TunnelEnvs ==
  Envs \cup {[UUID |-> StripDashes(ScenarioUserID), PROXYIP |-> <<>>, VLESS_KV |-> FALSE]}

\* the first chunks a peer may send, and the chunks that may follow
ChunkWorker1 == Encode(0, IdWorker1, <<>>, 1, 80, 1, <<127, 0, 0, 1>>, <<72, 73>>)
TunnelFirstChunks == {ChunkHappy, ChunkWorker1, ChunkUdp, ChunkDns, ChunkUnknown}
TunnelLaterChunks == {<<1>>, ChunkHappy}

\* the sessions of src/worker.js leave everything else as it is
TunnelOnly ==
  UNCHANGED << userID, env, kvStore, sessionVars, parserVars, created, deleted,
               dispatched, closeLog, handshake, worker, connection >>

\* the upgrade request: the second program sets userID from env (line 472),
\* the first has its constant (line 4); the stream is built and piped
TunnelUpgrade(variant, e) ==
  /\ TunnelOnly
  /\ tunnel.variant = 0
  /\ variant = 1 => e = NoEnv
  /\ tunnel' = [tunnel EXCEPT
       !.variant = variant,
       !.env = e,
       !.userID = IF variant = 1 THEN Worker1UserID
                  ELSE IF e.UUID # <<>> THEN e.UUID ELSE DefaultUserID,
       !.pipe = "active"]

\* the 'message' listener enqueues the chunk
TunnelMessage ==
  /\ TunnelOnly
  /\ tunnel.variant # 0
  /\ tunnel.pipe = "active"
  /\ tunnel.received < MaxMsgs
  /\ \E m \in (IF tunnel.received = 0 THEN TunnelFirstChunks ELSE TunnelLaterChunks) :
       tunnel' = [tunnel EXCEPT !.inbox = Append(@, m), !.received = @ + 1]

\* the write handler threw: pipeTo fails and cancels the source, whose
\* cancel() closes the WebSocket (lines 322-328 and 797-800)
TunnelThrew(t, chunk, did) ==
  [t EXCEPT !.pipe = "failed", !.inbox = <<>>, !.wsCloses = @ + 1,
            !.log = Append(@, [chunk |-> chunk, did |-> did])]

\* remoteSocketWapper.value is set: getWriter, write(chunk), releaseLock
TunnelForward(t, chunk) ==
  [t EXCEPT !.outbound = Append(@, chunk),
            !.log = Append(@, [chunk |-> chunk, did |-> "forward"])]

\* the write handler of the first program (lines 42-86). UDP to port 53 sets
\* isDns and takes write from the WritableStream that handleUDPOutBound
\* returns: it has no such property, and calling it throws. TCP calls
\* handleTCPOutBound, not awaited, which runs up to await connect(...)
Tunnel1Write(t, chunk) ==
  IF t.remoteSocketWapper = "set" THEN TunnelForward(t, chunk)
  ELSE LET r == worker1_processVlessHeader(chunk, t.userID) IN
    IF r.kind = "throw" \/ r.hasError THEN TunnelThrew(t, chunk, "rejected")
    ELSE IF r.isUDP
      THEN TunnelThrew([t EXCEPT !.isDns = (r.portRemote = 53)], chunk, "udpRejected")
    ELSE [t EXCEPT !.dial = "pending",
                   !.residual = SliceFrom(chunk, r.rawDataIndex),
                   !.connects = Append(@, << r.addressRemote, r.portRemote >>),
                   !.log = Append(@, [chunk |-> chunk, did |-> "tcp"])]

\* the write handler of the second program (lines 527-574). UDP to port 53
\* throws, other UDP returns. TCP calls handleTCPOutBound with seven
\* arguments for its six parameters (line 573 against line 697): log receives
\* the WebSocket, so that connectAndWrite throws at log(...) (line 705), after
\* connect() and remoteSocket.value = tcpSocket and before the write of
\* rawClientData; the rejection is not awaited
Tunnel2Write(t, chunk) ==
  IF t.remoteSocketWapper = "set" THEN TunnelForward(t, chunk)
  ELSE LET r == worker2_processVlessHeader(chunk, t.userID, t.env) IN
    IF r.kind = "throw" \/ r.hasError THEN TunnelThrew(t, chunk, "rejected")
    ELSE IF r.isUDP
      THEN IF r.portRemote = 53 THEN TunnelThrew(t, chunk, "udpRejected")
           ELSE [t EXCEPT !.log = Append(@, [chunk |-> chunk, did |-> "udpIgnored"])]
    ELSE [t EXCEPT !.dial = "ok",
                   !.remoteSocketWapper = "set",
                   !.residual = SliceFrom(chunk, r.rawDataIndex),
                   !.connects = Append(@, << r.addressRemote, r.portRemote >>),
                   !.log = Append(@, [chunk |-> chunk, did |-> "tcp"])]

\* pipeTo hands the next chunk to the write handler
TunnelWrite ==
  /\ TunnelOnly
  /\ tunnel.pipe = "active"
  /\ tunnel.inbox # <<>>
  /\ LET chunk == Head(tunnel.inbox)
         t == [tunnel EXCEPT !.inbox = Tail(@)]
     IN  tunnel' = IF tunnel.variant = 1 THEN Tunnel1Write(t, chunk)
                   ELSE Tunnel2Write(t, chunk)

\* first program: await connect(tcpSocket) settles (lines 128-136). When it
\* resolves, the socket becomes remoteSocket.value and the downstream pipeTo
\* is installed at once; when it rejects, retry() dials one of proxyIPs
TunnelDialDone(ok) ==
  /\ TunnelOnly
  /\ tunnel.dial = "pending"
  /\ IF ok
       THEN tunnel' = [tunnel EXCEPT !.dial = "ok", !.remoteSocketWapper = "set",
                                     !.pump = TRUE]
       ELSE \E proxyIP1 \in Worker1ProxyIPs :
              tunnel' = [tunnel EXCEPT
                !.dial = "retrying",
                !.connects = Append(@, << proxyIP1, tunnel.connects[1][2] >>)]

\* first program: the connect of retry() settles (lines 110-126). When it
\* resolves, connectAndWrite writes rawClientData and handleTCPOutBound goes
\* on to the downstream pipeTo; when it rejects, handleTCPOutBound rejects
TunnelRetryDone(ok) ==
  /\ TunnelOnly
  /\ tunnel.dial = "retrying"
  /\ tunnel' = IF ok
       THEN [tunnel EXCEPT !.dial = "retried", !.remoteSocketWapper = "set",
                           !.outbound = Append(@, tunnel.residual),
                           !.pump = TRUE]
       ELSE [tunnel EXCEPT !.dial = "failed"]

TunnelNext ==
  \/ \E variant \in {1, 2}, e \in TunnelEnvs : TunnelUpgrade(variant, e)
  \/ TunnelMessage
  \/ TunnelWrite
  \/ \E ok \in BOOLEAN : TunnelDialDone(ok)
  \/ \E ok \in BOOLEAN : TunnelRetryDone(ok)

TunnelSpec == Init /\ [][TunnelNext]_vars

\* ------------------------------------- src/unnamed/part_000: the parser
\* Utils.parseVLESSHeader(data): version at 0, identifier at 1..17, then the
\* byte at 17 read as the command, by which the address is read at 18 and the
\* big-endian port after it; any read outside the data throws a RangeError,
\* which is caught and answered with null
parseVLESSHeader(data) ==
  LET n == Len(data)
      command == ByteAt(data, 17)
      header(address, port, offset) ==
        [kind |-> "header", version |-> ByteAt(data, 0),
         uuid |-> UuidText(Slice(data, 1, 17)), command |-> command,
         address |-> address, port |-> port, offset |-> offset]
  IN  IF n < 18 THEN NullHeader
      ELSE CASE command = 1 ->
                  IF n < 24 THEN NullHeader
                  ELSE header(Join([i \in 1..4 |-> ToString10(ByteAt(data, 17 + i))], <<46>>),
                              GetUint16(data, 22), 24)
             [] command = 2 ->
                  IF n < 19 THEN NullHeader
                  ELSE LET domainLength == ByteAt(data, 18) IN
                       IF n < 19 + domainLength + 2 THEN NullHeader
                       ELSE header(Utf8Decode(Slice(data, 19, 19 + domainLength)),
                                   GetUint16(data, 19 + domainLength),
                                   19 + domainLength + 2)
             [] command = 3 ->
                  IF n < 36 THEN NullHeader
                  ELSE header(Join([i \in 1..8 |->
                                      ToString16(GetUint16(data, 18 + (i - 1) * 2))], <<58>>),
                              GetUint16(data, 34), 36)
             [] OTHER -> header(<<>>, 0, 18)

\* ------------------------------------------------- the parser on its own
\* processVlessHeader applied to buffers of every shape: a request encoded by
\* a client or a raw buffer first, a chunk to compare with second
ParserInit ==
  /\ \E w \in ParserWorlds :
       /\ env = w.env
       /\ kvStore = w.store
       /\ userID = IF w.env.UUID # <<>> THEN w.env.UUID ELSE DefaultUserID
  /\ \E t \in Requests \cup {NoRequest} :
       /\ request = t
       /\ \E a \in (IF t = NoRequest THEN RawBuffers ELSE {EncodeRequest(t)}),
             b \in SecondBuffers :
            vlessBuffers = << a, b >>
  /\ parsed = << NotCalled, NotCalled, NotCalled, NotCalled >>
  /\ vlessHeader = NotParsed
  /\ SessionIdle
  /\ created = {}
  /\ deleted = {}
  /\ dispatched = NoDispatch
  /\ closeLog = <<>>
  /\ handshake = NoHandshake
  /\ worker = NoWorker
  /\ connection = NoConnection
  /\ tunnel = NoTunnel

\* processVlessHeader of src/_worker.js on buffer k; the key-value backend
\* answers or fails
CallProcessVlessHeader(k) ==
  /\ k \in 1..Len(vlessBuffers)
  /\ parsed[k] = NotCalled
  /\ \E kvFails \in BOOLEAN :
       parsed' = [parsed EXCEPT ![k] =
                    processVlessHeader(vlessBuffers[k], userID, env, kvStore, kvFails)]
  /\ UNCHANGED << userID, env, kvStore, sessionVars, apiVars, request, vlessBuffers,
                  vlessHeader >>

\* processVlessHeader of the first program of src/worker.js on the first buffer
CallWorker1ProcessVlessHeader ==
  /\ vlessBuffers # <<>>
  /\ parsed[3] = NotCalled
  /\ parsed' = [parsed EXCEPT ![3] =
                  worker1_processVlessHeader(vlessBuffers[1], Worker1UserID)]
  /\ UNCHANGED << userID, env, kvStore, sessionVars, apiVars, request, vlessBuffers,
                  vlessHeader >>

\* processVlessHeader of the second program of src/worker.js on the first buffer
CallWorker2ProcessVlessHeader ==
  /\ vlessBuffers # <<>>
  /\ parsed[4] = NotCalled
  /\ parsed' = [parsed EXCEPT ![4] =
                  worker2_processVlessHeader(vlessBuffers[1], userID, env)]
  /\ UNCHANGED << userID, env, kvStore, sessionVars, apiVars, request, vlessBuffers,
                  vlessHeader >>

\* Utils.parseVLESSHeader of src/unnamed/part_000 on the first buffer
CallParseVLESSHeader ==
  /\ vlessBuffers # <<>>
  /\ vlessHeader = NotParsed
  /\ vlessHeader' = parseVLESSHeader(vlessBuffers[1])
  /\ UNCHANGED << userID, env, kvStore, sessionVars, apiVars, request, vlessBuffers,
                  parsed >>

ParserNext ==
  \/ \E k \in 1..2 : CallProcessVlessHeader(k)
  \/ CallParseVLESSHeader
  \/ CallWorker1ProcessVlessHeader
  \/ CallWorker2ProcessVlessHeader

ParserSpec == ParserInit /\ [][ParserNext]_vars

\* ------------------------------------------------ the management interface
\* the key handleCreateAccount stores under (line 527)
CreateKey(uuid) == StripDashes(uuid)

\* fetch for POST /api/create: the module-level identifier and fallback are
\* overwritten from env, then handleCreateAccount stores the account under the
\* uuid without its dashes when the backend is bound; a failing put is caught
\* and answered with success false (the request comes before the session)
FetchApiCreate(e, uuid) ==
  /\ phase = "idle"
  /\ userID' = IF e.UUID # <<>> THEN e.UUID ELSE userID
  /\ proxyIP' = IF e.PROXYIP # <<>> THEN e.PROXYIP ELSE proxyIP
  /\ \E putFails \in BOOLEAN :
       IF e.VLESS_KV /\ putFails
         THEN UNCHANGED << kvStore, created, deleted >>
         ELSE /\ kvStore' = IF e.VLESS_KV THEN kvStore \cup {CreateKey(uuid)} ELSE kvStore
              /\ created' = created \cup {uuid}
              /\ deleted' = {d \in deleted : UuidBytes(d) # UuidBytes(uuid)}
  /\ UNCHANGED << env, phase, wsReadyState, wsCloseCalls, peerClosed, wsErrored,
                  secWebSocketProtocol, msgCount, stream, readableStreamCancel,
                  pipe, sinkPc, remoteSocketWrapper, isDns, currentVlessVersion,
                  tcp, socks, dials, wsSendCalls, sinkLog, parserVars >>

\* the key handleDeleteAccount deletes (line 555)
DeleteKey(uuid) == StripDashes(uuid)

\* fetch for POST /api/delete: the module-level identifier and fallback are
\* overwritten from env, then handleDeleteAccount deletes the key that is the
\* uuid without its dashes when the backend is bound; a failing delete is
\* caught and answered with success false
FetchApiDelete(e, uuid) ==
  /\ phase = "idle"
  /\ userID' = IF e.UUID # <<>> THEN e.UUID ELSE userID
  /\ proxyIP' = IF e.PROXYIP # <<>> THEN e.PROXYIP ELSE proxyIP
  /\ \E deleteFails \in BOOLEAN :
       IF e.VLESS_KV /\ deleteFails
         THEN UNCHANGED << kvStore, created, deleted >>
         ELSE /\ kvStore' = IF e.VLESS_KV THEN kvStore \ {DeleteKey(uuid)} ELSE kvStore
              /\ deleted' = deleted \cup {uuid}
              /\ created' = {c \in created : UuidBytes(c) # UuidBytes(uuid)}
  /\ UNCHANGED << env, phase, wsReadyState, wsCloseCalls, peerClosed, wsErrored,
                  secWebSocketProtocol, msgCount, stream, readableStreamCancel,
                  pipe, sinkPc, remoteSocketWrapper, isDns, currentVlessVersion,
                  tcp, socks, dials, wsSendCalls, sinkLog, parserVars >>

\* accounts are created and deleted, then sessions bring their first chunk to
\* the parser
AccountInit ==
  /\ env = KvEnv
  /\ userID = KvEnv.UUID
  /\ kvStore = {}
  /\ request = NoRequest
  /\ \E a \in AccountChunks, b \in AccountChunks : vlessBuffers = << a, b >>
  /\ parsed = << NotCalled, NotCalled, NotCalled, NotCalled >>
  /\ vlessHeader = NotParsed
  /\ SessionIdle
  /\ created = {}
  /\ deleted = {}
  /\ dispatched = NoDispatch
  /\ closeLog = <<>>
  /\ handshake = NoHandshake
  /\ worker = NoWorker
  /\ connection = NoConnection
  /\ tunnel = NoTunnel

\* the create requests come first, the sessions whose first chunks are parsed
\* come later
CreateBeforeSessions(uuid) ==
  /\ parsed = << NotCalled, NotCalled, NotCalled, NotCalled >>
  /\ FetchApiCreate(KvEnv, uuid)
  /\ UNCHANGED << dispatched, closeLog, handshake, worker, connection, tunnel >>

\* the delete requests come before the sessions too
DeleteBeforeSessions(uuid) ==
  /\ parsed = << NotCalled, NotCalled, NotCalled, NotCalled >>
  /\ FetchApiDelete(KvEnv, uuid)
  /\ UNCHANGED << dispatched, closeLog, handshake, worker, connection, tunnel >>

AccountNext ==
  \/ \E uuid \in CreateUuids : CreateBeforeSessions(uuid)
  \/ \E uuid \in DeleteUuids : DeleteBeforeSessions(uuid)
  \/ \E k \in 1..2 : CallProcessVlessHeader(k)

AccountSpec == AccountInit /\ [][AccountNext]_vars

\* ------------------------------------ src/unnamed/part_000: the handshake
\* the first chunks a client of this program may hold
HandshakeChunks == FirstChunks \cup {EncodeRequest(t) : t \in Requests}

\* everything but the handshake stays as it is
HandshakeOnly ==
  UNCHANGED << userID, proxyIP, env, kvStore, phase, wsReadyState, wsCloseCalls,
               peerClosed, wsErrored, secWebSocketProtocol, msgCount, stream,
               readableStreamCancel, pipe, sinkPc, remoteSocketWrapper, isDns,
               currentVlessVersion, tcp, socks, dials, wsSendCalls, sinkLog,
               request, vlessBuffers, parsed, created, deleted, dispatched, closeLog,
               worker, connection, tunnel >>

\* handleRequest and handleWebSocketUpgrade up to the await of
\* waitForVLESSHandshake: CONFIG.UUID is taken from env when unset, the pair is
\* created, the server side accepted, the timer and the message listener set.
\* The response that carries the client side has not been returned yet.
handleWebSocketUpgrade(e, chunk) ==
  /\ handshake.pc = "idle"
  /\ handshake' = [handshake EXCEPT !.pc = "waiting",
                                     !.configUUID = IF @ = <<>> THEN e.UUID ELSE @,
                                     !.clientChunk = chunk]
  /\ UNCHANGED vlessHeader
  /\ HandshakeOnly

\* what the platform gives the program for the names it uses and does not
\* define: whether a WebSocket has a closed promise (line 374), and what
\* connect is (line 179): no binding at all, the Socket of cloudflare:sockets
\* (readable, writable, closed, close), or a socket with the read() and
\* write() that VLESSConnection calls
Platforms == [closed : BOOLEAN, connect : {"unbound", "socket", "readwrite"}]

\* fault variant: a new connection is counted in totalConnections only
StatsAfterOpenTotalOnly(stats) ==
  [stats EXCEPT !.totalConnections = @ + 1]

\* this.stats.totalConnections++; this.stats.activeConnections++
StatsAfterOpen(stats) ==
  [stats EXCEPT !.totalConnections = @ + 1, !.activeConnections = @ + 1]

\* handleWebSocketUpgrade after the await, with the first message as
\* initialData: a header that does not parse closes with 1002, another
\* identifier with 1003. Otherwise the connection is stored under a fresh
\* requestId and counted, and server.closed.then(...) is reached: without a
\* closed promise that is a TypeError, caught and answered with status 400.
\* With one, handleConnection runs up to its await, which calls connect() when
\* it is bound, and remaining data is written through targetSocket, still
\* null then: a TypeError again, and status 400. The identifiers that
\* Utils.generateRequestId draws with Math.random (two runs of up to 13
\* base-36 digits) are taken as distinct within one worker
HandshakeResolved(hs, w, initialData, pf) ==
  LET h == parseVLESSHeader(initialData)
      requestId == w.stats.totalConnections + 1
      stored == [w EXCEPT !.connections = @ \cup {requestId},
                          !.stats = StatsAfterOpen(@)]
      dialled == IF pf.connect = "unbound" THEN hs.connects
                 ELSE Append(hs.connects, << h.address, h.port >>)
  IN
    IF h.kind = "null"
      THEN [hs |-> [hs EXCEPT !.pc = "rejected", !.closeCode = 1002,
                              !.responseStatus = 101],
            w |-> w]
    ELSE IF h.uuid # hs.configUUID
      THEN [hs |-> [hs EXCEPT !.pc = "rejected", !.closeCode = 1003,
                              !.responseStatus = 101],
            w |-> w]
    ELSE IF ~pf.closed
      THEN [hs |-> [hs EXCEPT !.pc = "failed", !.responseStatus = 400],
            w |-> stored]
    ELSE IF Len(initialData) > h.offset
      THEN [hs |-> [hs EXCEPT !.pc = "failed", !.responseStatus = 400,
                              !.connects = dialled],
            w |-> [stored EXCEPT !.closedHandlers = @ \cup {requestId}]]
    ELSE [hs |-> [hs EXCEPT !.pc = "started", !.responseStatus = 101,
                            !.connects = dialled],
          w |-> [stored EXCEPT !.closedHandlers = @ \cup {requestId}]]

\* the timer of waitForVLESSHandshake fires: the promise resolves with null,
\* the server side is closed with 1002 and the response is returned
HandshakeTimeout ==
  /\ handshake.pc = "waiting"
  /\ handshake' = [handshake EXCEPT !.pc = "rejected", !.closeCode = 1002,
                                     !.responseStatus = 101]
  /\ UNCHANGED vlessHeader
  /\ HandshakeOnly

\* the client sends its first chunk. The client side of the pair reaches the
\* client with the 101 response, so nothing arrives on the server side before
\* handleWebSocketUpgrade has returned; by then the promise of
\* waitForVLESSHandshake is resolved and the chunk finds no listener
ClientSendsFirstChunk ==
  /\ handshake.responseStatus = 101
  /\ ~handshake.clientSent
  /\ handshake' = [handshake EXCEPT !.clientSent = TRUE]
  /\ UNCHANGED vlessHeader
  /\ HandshakeOnly

HandshakeNext ==
  \/ \E e \in Envs, chunk \in HandshakeChunks : handleWebSocketUpgrade(e, chunk)
  \/ HandshakeTimeout
  \/ ClientSendsFirstChunk

HandshakeSpec == Init /\ [][HandshakeNext]_vars

\* ------------------------------- src/unnamed/part_000: the VLESSConnection
\* the chunks a connection carries
ConnectionChunks == {<<1>>, <<2>>}

\* everything but the connection stays as it is
ConnectionOnly ==
  UNCHANGED << userID, env, kvStore, sessionVars, parserVars, created, deleted,
               dispatched, closeLog, handshake, worker, tunnel >>

\* cleanup(): nothing when isActive is false already; otherwise isActive is
\* cleared, targetSocket is closed when it is set, the WebSocket is closed
\* and the statistics are logged
cleanup(c) ==
  IF ~c.isActive THEN c
  ELSE [c EXCEPT !.isActive = FALSE,
                 !.cleanups = @ + 1,
                 !.targetCloses = IF c.targetSocket = "null" THEN @ ELSE @ + 1,
                 !.socket = IF c.targetSocket = "null" THEN @ ELSE "closed",
                 !.websocketCloses = @ + 1,
                 !.websocket = "closed",
                 !.statsLogged = @ + 1]

\* readData() up to its await: nothing when isActive is false; otherwise
\* this.targetSocket.read() is called, which is a TypeError on the Socket of
\* cloudflare:sockets (caught: cleanup) and a pending read on a socket that
\* has the method
readData(c) ==
  IF ~c.isActive THEN c
  ELSE IF c.platform = "socket" THEN cleanup(c)
  ELSE [c EXCEPT !.read = "pending"]

\* new VLESSConnection(...) and handleConnection() up to its await:
\* connectToTarget() calls connect(), a ReferenceError where the name is not
\* bound, which it rethrows; otherwise it registers socket.closed.then and
\* returns the socket
NewConnection(platform) ==
  /\ connection.pc = "none"
  /\ connection' =
       IF platform = "unbound"
         THEN [NoConnection EXCEPT !.pc = "connectFailed", !.platform = platform,
                                   !.isActive = TRUE]
         ELSE [NoConnection EXCEPT !.pc = "connecting", !.platform = platform,
                                   !.isActive = TRUE, !.socket = "open",
                                   !.closedHandler = TRUE]
  /\ ConnectionOnly

\* handleConnection() after its await: the catch block runs cleanup(), or
\* targetSocket is set and setupDataForwarding() installs the listeners and
\* calls readData()
ConnectSettled ==
  /\ connection.pc \in {"connectFailed", "connecting"}
  /\ connection' =
       IF connection.pc = "connectFailed"
         THEN [cleanup(connection) EXCEPT !.pc = "done"]
         ELSE readData([connection EXCEPT !.pc = "forwarding", !.targetSocket = "socket"])
  /\ ConnectionOnly

\* the 'message' listener of the WebSocket: returns when isActive is false
\* or targetSocket is not set; otherwise calls targetSocket.write(data), a
\* TypeError on the Socket of cloudflare:sockets, a write that succeeds or
\* fails on a socket that has the method; a failure runs cleanup()
WebSocketMessage(data, ok) ==
  /\ connection.pc = "forwarding"
  /\ connection.messages < MaxMsgs
  /\ LET c == [connection EXCEPT !.messages = @ + 1] IN
       connection' =
         IF ~c.isActive \/ c.targetSocket = "null" THEN c
         ELSE IF c.platform = "socket" THEN cleanup(c)
         ELSE LET written == [c EXCEPT !.forwarded =
                                Append(@, [to |-> "target", data |-> data,
                                           afterCleanup |-> ~c.isActive])]
              IN  IF ok /\ c.socket = "open" THEN written ELSE cleanup(written)
  /\ ConnectionOnly

\* readData() after its await, with data: websocket.send(data), with no look
\* at isActive, then readData() again; a send on a closed WebSocket throws
\* and the catch block runs cleanup()
TargetData(data) ==
  /\ connection.read = "pending"
  /\ Len(connection.forwarded) < MaxMsgs
  /\ LET c == [connection EXCEPT !.read = "none",
                                 !.forwarded =
                                   Append(@, [to |-> "websocket", data |-> data,
                                              afterCleanup |-> ~connection.isActive])]
     IN  connection' = IF c.websocket = "open" THEN readData(c) ELSE cleanup(c)
  /\ ConnectionOnly

\* readData() after its await, without data or with a rejection: cleanup()
TargetEnd ==
  /\ connection.read = "pending"
  /\ connection' = cleanup([connection EXCEPT !.read = "none"])
  /\ ConnectionOnly

\* the callback of socket.closed.then(...) (lines 185-188): cleanup()
TargetClosed ==
  /\ connection.closedHandler
  /\ connection' = cleanup([connection EXCEPT !.closedHandler = FALSE, !.socket = "closed"])
  /\ ConnectionOnly

\* the 'close' or the 'error' listener of the WebSocket: cleanup()
WebSocketCloseOrError ==
  /\ connection.pc = "forwarding"
  /\ connection.events < 2
  /\ connection' = cleanup([connection EXCEPT !.events = @ + 1])
  /\ ConnectionOnly

ConnectionNext ==
  \/ \E platform \in {"unbound", "socket", "readwrite"} : NewConnection(platform)
  \/ ConnectSettled
  \/ \E data \in ConnectionChunks, ok \in BOOLEAN : WebSocketMessage(data, ok)
  \/ \E data \in ConnectionChunks : TargetData(data)
  \/ TargetEnd
  \/ TargetClosed
  \/ WebSocketCloseOrError

ConnectionSpec == Init /\ [][ConnectionNext]_vars

\* --------------------------------- src/unnamed/part_000: the VLESSWorker
\* number of connections the worker stores before the model stops
MaxConnections == 2

\* everything but the handshake and the worker stays as it is
WorkerOnly ==
  UNCHANGED << userID, env, kvStore, sessionVars, request, vlessBuffers, parsed,
               created, deleted, dispatched, closeLog, connection, tunnel >>

\* messageHandler of waitForVLESSHandshake runs during the wait, on a
\* WebSocket whose messages are delivered once it is accepted: the promise
\* resolves with the chunk and handleWebSocketUpgrade goes on
FirstMessageDuringWait(pf) ==
  /\ handshake.pc = "waiting"
  /\ ~handshake.clientSent
  /\ LET after == HandshakeResolved([handshake EXCEPT !.clientSent = TRUE], worker,
                                    handshake.clientChunk, pf)
     IN  /\ handshake' = after.hs
         /\ worker' = after.w
  /\ vlessHeader' = parseVLESSHeader(handshake.clientChunk)
  /\ WorkerOnly

\* server.closed.then(...) of connection requestId runs (lines 374-377)
ServerClosed(requestId) ==
  /\ requestId \in worker.closedHandlers
  /\ worker' = [worker EXCEPT !.connections = @ \ {requestId},
                              !.stats.activeConnections = @ - 1,
                              !.closedHandlers = @ \ {requestId}]
  /\ UNCHANGED << handshake, vlessHeader >>
  /\ WorkerOnly

\* handleWebSocketUpgrade has returned its response; the worker takes the
\* next request. CONFIG.UUID stays as the first request set it
ResponseReturned ==
  /\ handshake.responseStatus # 0
  /\ worker.stats.totalConnections < MaxConnections
  /\ handshake' = [NoHandshake EXCEPT !.configUUID = handshake.configUUID]
  /\ vlessHeader' = NotParsed
  /\ UNCHANGED worker
  /\ WorkerOnly

WorkerNext ==
  \/ \E e \in Envs, chunk \in HandshakeChunks : handleWebSocketUpgrade(e, chunk)
  \/ HandshakeTimeout
  \/ \E pf \in Platforms : FirstMessageDuringWait(pf)
  \/ \E requestId \in 1..MaxConnections : ServerClosed(requestId)
  \/ ResponseReturned

WorkerSpec == Init /\ [][WorkerNext]_vars

\* --------------------------------------------------------- the dispatcher
\* upgradeHeader === 'websocket' (line 28)
IsUpgrade(upgradeHeader) == upgradeHeader = Websocket

\* the handler fetch reaches for a request (lines 28-60)
Handler(req) ==
  IF IsUpgrade(req.upgrade) THEN "vlessOverWSHandler"
  ELSE IF req.method = "OPTIONS" THEN "options"
  ELSE IF req.pathname = "/api/accounts" THEN "handleGetAccounts"
  ELSE IF req.pathname = "/api/create" THEN "handleCreateAccount"
  ELSE IF req.pathname = "/api/delete" THEN "handleDeleteAccount"
  ELSE "getHTML"

\* fetch on any request: the module-level identifier and fallback are
\* overwritten from env, then the request goes to vlessOverWSHandler, which
\* creates the WebSocket pair, or to the management surface; the preflight
\* answer, the account list and the page change nothing
Fetch(e, req) ==
  /\ phase = "idle"
  /\ dispatched' = [upgrade |-> req.upgrade, method |-> req.method,
                    pathname |-> req.pathname, handler |-> Handler(req)]
  /\ CASE Handler(req) = "vlessOverWSHandler" ->
            UpgradeAccepted(e, <<>>) /\ UNCHANGED << created, deleted >>
       [] Handler(req) = "handleCreateAccount" -> FetchApiCreate(e, req.uuid)
       [] Handler(req) = "handleDeleteAccount" -> FetchApiDelete(e, req.uuid)
       [] OTHER ->
            /\ userID' = IF e.UUID # <<>> THEN e.UUID ELSE userID
            /\ proxyIP' = IF e.PROXYIP # <<>> THEN e.PROXYIP ELSE proxyIP
            /\ UNCHANGED << env, kvStore, created, deleted, phase, wsReadyState,
                            wsCloseCalls, peerClosed, wsErrored, secWebSocketProtocol,
                            msgCount, stream, readableStreamCancel, pipe, sinkPc,
                            remoteSocketWrapper, isDns, currentVlessVersion, tcp,
                            socks, dials, wsSendCalls, sinkLog, parserVars >>
  /\ UNCHANGED << closeLog, handshake, worker, connection, tunnel >>

DispatchNext == \E e \in Envs, req \in HttpRequests : Fetch(e, req)

DispatchSpec == Init /\ [][DispatchNext]_vars

\* ------------------------------------------------ safeCloseWebSocket alone
\* a socket in any ready state; the peer's close may have been received once
\* the socket is Closing or Closed
CloseInit ==
  /\ userID = DefaultUserID
  /\ env = NoEnv
  /\ kvStore = {}
  /\ proxyIP = DefaultProxyIP
  /\ phase = "idle"
  /\ wsReadyState \in {WS_READY_STATE_CONNECTING, WS_READY_STATE_OPEN,
                        WS_READY_STATE_CLOSING, WS_READY_STATE_CLOSED}
  /\ peerClosed \in BOOLEAN
  /\ peerClosed => wsReadyState \in {WS_READY_STATE_CLOSING, WS_READY_STATE_CLOSED}
  /\ wsCloseCalls = <<>>
  /\ wsErrored = FALSE
  /\ secWebSocketProtocol = <<>>
  /\ msgCount = 0
  /\ stream = [state |-> "readable", queue |-> <<>>, closeRequested |-> FALSE]
  /\ readableStreamCancel = FALSE
  /\ pipe = "active"
  /\ sinkPc = "idle"
  /\ remoteSocketWrapper = 0
  /\ isDns = FALSE
  /\ currentVlessVersion = <<0, 0>>
  /\ tcp = NoTcp
  /\ socks = <<>>
  /\ dials = <<>>
  /\ wsSendCalls = <<>>
  /\ sinkLog = <<>>
  /\ ParserIdle
  /\ created = {}
  /\ deleted = {}
  /\ dispatched = NoDispatch
  /\ closeLog = <<>>
  /\ handshake = NoHandshake
  /\ worker = NoWorker
  /\ connection = NoConnection
  /\ tunnel = NoTunnel

\* one call of safeCloseWebSocket(socket): socket.close() is called when the
\* ready state is Open or Closing; it may throw, which leaves the ready state
\* as it was and is caught
CallSafeCloseWebSocket ==
  /\ Len(closeLog) < MaxCloses
  /\ \E closeThrows \in BOOLEAN :
       LET called == safeCloseCalls(wsReadyState)
           threw == called /\ closeThrows
           after == IF threw THEN wsReadyState
                    ELSE safeCloseWebSocket(wsReadyState, peerClosed)
       IN  /\ wsReadyState' = after
           /\ wsCloseCalls' = IF threw THEN wsCloseCalls
                               ELSE CloseCallsAfter(wsCloseCalls, wsReadyState)
           /\ closeLog' = Append(closeLog,
                [readyState |-> wsReadyState, called |-> called, threw |-> threw,
                 raised |-> SafeCloseRaises(threw), after |-> after])
  /\ UNCHANGED << userID, proxyIP, env, kvStore, phase, peerClosed, wsErrored,
                  secWebSocketProtocol, msgCount, stream, readableStreamCancel,
                  pipe, sinkPc, remoteSocketWrapper, isDns, currentVlessVersion,
                  tcp, socks, dials, wsSendCalls, sinkLog, parserVars, created,
                  deleted, dispatched, handshake, worker, connection, tunnel >>

\* the peer's close arrives between two calls
PeerCloseArrives ==
  /\ ~peerClosed
  /\ wsReadyState # WS_READY_STATE_CONNECTING
  /\ peerClosed' = TRUE
  /\ \E rs \in {WS_READY_STATE_CLOSING, WS_READY_STATE_CLOSED} :
       /\ wsReadyState = WS_READY_STATE_OPEN \/ rs = WS_READY_STATE_CLOSED
       /\ wsReadyState' = rs
  /\ UNCHANGED << userID, proxyIP, env, kvStore, phase, wsCloseCalls, wsErrored,
                  secWebSocketProtocol, msgCount, stream, readableStreamCancel,
                  pipe, sinkPc, remoteSocketWrapper, isDns, currentVlessVersion,
                  tcp, socks, dials, wsSendCalls, sinkLog, parserVars, apiVars >>

CloseNext ==
  \/ CallSafeCloseWebSocket
  \/ PeerCloseArrives

CloseSpec == CloseInit /\ [][CloseNext]_vars

\* ================================================================== claims
IsPrefix(a, b) == Len(a) <= Len(b) /\ a = SubSeq(b, 1, Len(a))

\* the first chunk the write handler took
FirstChunk == sinkLog[1].chunk

\* the identifier of the first chunk is neither the static one nor a stored key
FirstIdUnknown ==
  /\ sinkLog # <<>>
  /\ Len(FirstChunk) >= 17
  /\ LET uuidString == stringify(Slice(FirstChunk, 1, 17)) IN
       uuidString # StripDashes(userID) /\ uuidString \notin kvStore

\* C1: a session whose first chunk carries an identifier that is neither the
\* static userID nor a key of the KV store never calls connect, whatever
\* chunks follow.
C1_UnknownIdentifierNeverDials == FirstIdUnknown => dials = <<>>

\* C1 witness: such a first chunk was rejected, further messages arrived after
\* it, and the engine has closed the WebSocket
C1_Witness ==
  /\ FirstIdUnknown
  /\ Len(FirstChunk) >= 24
  /\ msgCount = MaxMsgs
  /\ wsReadyState = WS_READY_STATE_CLOSING
  /\ dials = <<>>

\* C2 (as claimed): whenever anything has been sent downstream, the first
\* message sent begins with the response header {version, 0x00}, version being
\* the first byte of the request's first chunk.
C2_ResponseHeaderPrecedesPayload ==
  wsSendCalls # <<>> =>
    /\ Len(wsSendCalls[1].chunk) >= 2
    /\ SubSeq(wsSendCalls[1].chunk, 1, 2) = << FirstChunk[1], 0 >>

\* what the peer sent after the header: the residual payload of the first
\* chunk, then every later chunk the write handler took
UpstreamBytes ==
  tcp.rawClientData \o Concat([j \in 1..(Len(sinkLog) - 1) |-> sinkLog[j + 1].chunk])

\* C3 (as claimed): the bytes written to an outbound socket are bytes received
\* from the WebSocket after payloadOffset, in order, and nothing else.
C3_OutboundBytesAreUpstreamBytes ==
  \A i \in 1..Len(socks) : IsPrefix(socks[i].written, UpstreamBytes)

\* the chunks the pumps have read from the outbound sockets, oldest socket first
ChunksRead ==
  Concat([i \in 1..Len(socks) |-> [k \in 1..socks[i].pumped |-> RemoteChunk(i, k)]])

\* C4: the messages handed to webSocket.send are, in order, exactly the chunks
\* the pumps read from the outbound sockets: one message per chunk, none
\* dropped, duplicated or reordered.
C4_SendsAreChunksRead ==
  [j \in 1..Len(wsSendCalls) |-> wsSendCalls[j].chunk] = ChunksRead

\* C4 witness: two chunks of one socket went out in order on an Open WebSocket
C4_Witness ==
  /\ Len(wsSendCalls) = 2
  /\ wsSendCalls[1].open /\ wsSendCalls[2].open
  /\ wsSendCalls[1].chunk = RemoteChunk(1, 1)
  /\ wsSendCalls[2].chunk = RemoteChunk(1, 2)

\* the sockets opened by retry()
RetrySocks == {i \in 1..Len(socks) : socks[i].isRetry}

\* C5: retry() runs at most once in a session.
C5_RetryAtMostOnce == Cardinality(RetrySocks) <= 1 /\ Len(dials) <= 2

\* C5 witness: the fallback socket also ended without yielding a chunk and its
\* pump has returned
C5_Witness ==
  \E i \in RetrySocks :
    /\ socks[i].pump = "ended"
    /\ ~socks[i].hasIncomingData
    /\ socks[i].st # "open"

\* C6 (as claimed): a chunk read from the fallback socket is sent on a
\* WebSocket that is still Open (the peer has not closed it, the upstream
\* side has not failed and the fallback socket itself is still open).
C6_FallbackChunksReachOpenWebSocket ==
  \A j \in 1..Len(wsSendCalls) :
    ( /\ socks[wsSendCalls[j].sock].isRetry
      /\ socks[wsSendCalls[j].sock].st = "open"
      /\ ~peerClosed
      /\ ~readableStreamCancel ) => wsSendCalls[j].open

\* C7 (as claimed): a chunk the write handler takes while connectAndWrite is
\* still writing is queued behind the residual payload; it never fails on the
\* writer connectAndWrite holds.
C7_ChunkDuringDialIsQueued ==
  \A j \in 1..Len(sinkLog) : sinkLog[j].did # "lockedDialing"

\* C8 (as claimed): when the primary connectAndWrite fails (dial or first
\* write), the fallback is dialed.
C8_PrimaryFailureFallsBack ==
  (Len(socks) >= 1 /\ socks[1].co = "failed") => Len(dials) >= 2

FirstUdpNonDns ==
  /\ sinkLog # <<>>
  /\ Len(FirstChunk) >= 24
  /\ ByteAt(FirstChunk, 18 + FirstChunk[18]) = 2
  /\ LET r == processVlessHeader(FirstChunk, userID, env, kvStore, FALSE) IN
       r.kind = "return" /\ ~r.hasError /\ r.isUDP /\ r.portRemote # 53

\* C10: an authenticated first chunk with command UDP and a port other than
\* 53 is rejected: the WebSocket is no longer Open and connect is never called.
C10_UdpNonDnsRejected ==
  FirstUdpNonDns => (wsReadyState # WS_READY_STATE_OPEN /\ dials = <<>>)

\* C10 witness: such a chunk was taken and the engine closed the WebSocket
C10_Witness ==
  /\ FirstUdpNonDns
  /\ ~peerClosed
  /\ readableStreamCancel
  /\ wsReadyState = WS_READY_STATE_CLOSING

\* the first chunk is an authenticated UDP request for port 53
FirstUdpDns ==
  /\ sinkLog # <<>>
  /\ Len(FirstChunk) >= 24
  /\ ByteAt(FirstChunk, 18 + FirstChunk[18]) = 2
  /\ LET r == processVlessHeader(FirstChunk, userID, env, kvStore, FALSE) IN
       r.kind = "return" /\ ~r.hasError /\ r.isUDP /\ r.portRemote = 53

\* C11 (as claimed): an authenticated first chunk with command UDP and port 53
\* is rejected cleanly: once the write handler has returned from it and the
\* engine has nothing left to run, the WebSocket is no longer Open.
C11_Dns53RejectedCleanly ==
  (FirstUdpDns /\ sinkPc = "idle" /\ stream.queue = <<>>)
    => wsReadyState # WS_READY_STATE_OPEN

\* call k of the parser returned a parsed request
Parsed(k) == parsed[k].kind = "return" /\ ~parsed[k].hasError

\* C12: for every buffer shorter than 24 bytes, each of the three
\* processVlessHeader returns the failure for a length that is too short,
\* whatever the buffer holds and whatever the identity store holds.
C12_ShortBufferIsRejected ==
  \A k \in 1..Len(vlessBuffers) :
    Len(vlessBuffers[k]) < 24 =>
      /\ parsed[k] \in {NotCalled, HdrError("Invalid data length")}
      /\ k = 1 => /\ parsed[3] \in {NotCalled, HdrError("invalid data")}
                  /\ parsed[4] \in {NotCalled, HdrError("invalid data")}

\* C12 witness: a buffer of 23 bytes that carries the configured identifier
\* went through all three parsers
C12_Witness ==
  /\ vlessBuffers # <<>>
  /\ Len(vlessBuffers[1]) = 23
  /\ stringify(Slice(vlessBuffers[1], 1, 17)) = StripDashes(userID)
  /\ parsed[1] = HdrError("Invalid data length")
  /\ parsed[3] = HdrError("invalid data")
  /\ parsed[4] = HdrError("invalid data")

\* C13 (as claimed): when processVlessHeader returns a parsed request, its
\* rawDataIndex is at most the length of the chunk, so that the address field
\* lies inside the chunk.
C13_PayloadOffsetInsideChunk ==
  \A k \in 1..Len(vlessBuffers) :
    (k <= 2 /\ Parsed(k)) => parsed[k].rawDataIndex <= Len(vlessBuffers[k])

\* the parsed request of call k, as section 3 of the design lists it
ParsedRequest(k) ==
  [version |-> parsed[k].vlessVersion,
   identifier |-> Slice(vlessBuffers[k], 1, 17),
   isUDP |-> parsed[k].isUDP,
   port |-> parsed[k].portRemote,
   addressType |-> parsed[k].addressType,
   address |-> parsed[k].addressRemote,
   payloadOffset |-> parsed[k].rawDataIndex]

\* bytes [0, payloadOffset) of the chunk of call k
HeaderSlice(k) == Slice(vlessBuffers[k], 0, parsed[k].rawDataIndex)

\* the same without the option bytes (the length byte at 17 stays)
HeaderSliceLessOptions(k) ==
  Slice(vlessBuffers[k], 0, 18)
  \o Slice(vlessBuffers[k], 18 + vlessBuffers[k][18], parsed[k].rawDataIndex)

\* well-formed UTF-8 of one- and two-byte forms
RECURSIVE IsUtf8(_)
IsUtf8(bs) ==
  IF bs = <<>> THEN TRUE
  ELSE IF Head(bs) < 128 THEN IsUtf8(Tail(bs))
  ELSE IF Head(bs) >= 194 /\ Head(bs) <= 223 /\ Len(bs) >= 2 /\ bs[2] >= 128 /\ bs[2] <= 191
    THEN IsUtf8(Tail(Tail(bs)))
  ELSE FALSE

\* the chunk of call k holds its whole header, and a name in it is UTF-8
WholeHeader(k) ==
  /\ parsed[k].rawDataIndex <= Len(vlessBuffers[k])
  /\ parsed[k].addressType = 2 =>
       IsUtf8(Slice(vlessBuffers[k], 23 + vlessBuffers[k][18], parsed[k].rawDataIndex))

RequestIdAccepted ==
  \/ stringify(request.id) = StripDashes(userID)
  \/ /\ env.VLESS_KV
     /\ stringify(request.id) \in kvStore
     /\ parsed[1].message # "Invalid user ID"

\* C15: a request encoded in the layout of section 4.1 with an accepted
\* identifier parses to the same version, command, port, address type and
\* address, and rawDataIndex is the offset of the first byte of its payload.
C15_EncodeThenParse ==
  (request # NoRequest /\ parsed[1] # NotCalled /\ RequestIdAccepted) =>
    LET r == parsed[1]
        buf == vlessBuffers[1]
    IN  /\ r.kind = "return" /\ ~r.hasError
        /\ r.vlessVersion = << request.version >>
        /\ r.isUDP = (request.command = 2)
        /\ r.portRemote = request.port
        /\ r.addressType = request.addressType
        /\ r.addressRemote = AddressText(request.addressType, request.addr)
        /\ r.rawDataIndex = Len(buf) - Len(request.payload)
        /\ SliceFrom(buf, r.rawDataIndex) = request.payload

\* C15 witness: a UDP request for a two-byte name, with options and payload,
\* under a stored identifier, was encoded and parsed
C15_Witness ==
  /\ request # NoRequest
  /\ request.id = IdStored
  /\ request.command = 2
  /\ request.addr = <<233>>
  /\ request.opts # <<>>
  /\ request.payload # <<>>
  /\ Parsed(1)
  /\ parsed[1].addressRemote = <<233>>

\* C16 (as claimed): on a buffer whose identifier is accepted the parser never
\* throws: it returns a parsed request or one of the four failures.
C16_ParserNeverThrows ==
  \A k \in 1..Len(vlessBuffers) :
    (k <= 2 /\ parsed[k] # NotCalled /\ parsed[k].message # "Invalid user ID") =>
      /\ parsed[k].kind = "return"
      /\ parsed[k].hasError =>
           parsed[k].message \in {"Invalid data length", "Invalid address type",
                                  "Unsupported command", "Address value is empty"}

\* C17: early data E is the first chunk of the inbound stream: it waits in the
\* stream from the start, before any WebSocket message, and it is the first
\* chunk the write handler takes, as if E had come as the first message.
C17_EarlyDataIsFirstChunk ==
  \A pr \in EarlyPairs :
    (phase = "session" /\ secWebSocketProtocol = pr[1]) =>
      /\ (sinkLog = <<>> /\ stream.state = "readable") =>
           (stream.queue # <<>> /\ Head(stream.queue) = pr[2])
      /\ sinkLog # <<>> => FirstChunk = pr[2]
      /\ Len(sinkLog) >= 2 => sinkLog[2].chunk \in LaterChunks(1, FALSE)

\* C17 witness: with early data and no WebSocket message at all, the session
\* dialed and a chunk of the destination was sent downstream
C17_Witness ==
  /\ secWebSocketProtocol = Base64UrlEncode(ChunkHappy)
  /\ msgCount = 1
  /\ sinkLog # <<>>
  /\ FirstChunk = ChunkHappy
  /\ dials = << << <<49, 50, 55, 46, 48, 46, 48, 46, 49>>, 80 >> >>
  /\ wsSendCalls # <<>>

\* C18 (as claimed): when the early-data header fails to decode, the stream
\* fails, the engine closes the WebSocket, no chunk is parsed as a header and
\* no outbound connection is opened, whatever messages follow.
C18_BadEarlyDataClosesSession ==
  (phase = "session" /\ base64ToArrayBuffer(secWebSocketProtocol).error) =>
    /\ stream.state = "errored"
    /\ pipe = "done"
    /\ sinkLog = <<>>
    /\ dials = <<>>
    /\ wsReadyState # WS_READY_STATE_OPEN

\* what the write handler did with the first chunk when it failed header
\* parsing or the identity check
FirstChunkFailed ==
  /\ sinkLog # <<>>
  /\ sinkLog[1].did \in {"Invalid data length", "Invalid user ID", "Unsupported command",
                         "Invalid address type", "Address value is empty", "parseThrew"}

\* C19 (as claimed): when the first chunk fails header parsing or the identity
\* check, the engine closes the WebSocket with the protocol-error status
\* (1002), no later chunk is processed and nothing is sent downstream.
C19_FailedHeaderClosesWithProtocolError ==
  FirstChunkFailed =>
    /\ wsReadyState # WS_READY_STATE_OPEN
    /\ Len(sinkLog) = 1
    /\ wsSendCalls = <<>>
    /\ wsCloseCalls = << <<1002>> >>

\* C20 (as claimed): once /api/create has succeeded for a uuid, a first chunk
\* that carries the 16 bytes of that uuid is accepted by processVlessHeader
\* (the backend answering), in whatever textual form the request carried it.
C20_CreatedIdentifierIsAccepted ==
  \A uuid \in created : \A k \in 1..Len(vlessBuffers) :
    ( /\ k <= 2
      /\ parsed[k] # NotCalled
      /\ ~parsed[k].kvError
      /\ Slice(vlessBuffers[k], 1, 17) = UuidBytes(uuid) )
    => parsed[k].message # "Invalid user ID"

\* C21 (as claimed): once /api/delete has succeeded for a uuid (and the
\* identifier has not been created again), a first chunk that arrives later
\* with the 16 bytes of that uuid is rejected by processVlessHeader, so that
\* the session opens no outbound connection.
C21_DeletedIdentifierIsRejected ==
  \A uuid \in deleted : \A k \in 1..Len(vlessBuffers) :
    ( /\ k <= 2
      /\ parsed[k] # NotCalled
      /\ Slice(vlessBuffers[k], 1, 17) = UuidBytes(uuid) )
    => (parsed[k].kind = "return" /\ parsed[k].hasError)

\* C22: a chunk whose identifier is not the static userID and whose lookup in
\* the key-value backend failed with a backend error is rejected with
\* 'Invalid user ID', and the session has opened no outbound connection.
C22_KvErrorRejects ==
  \A j \in 1..Len(sinkLog) :
    sinkLog[j].kvError => (sinkLog[j].did = "Invalid user ID" /\ dials = <<>>)

\* the backend holds the identifier of the first chunk, the lookup failed and
\* the session was closed without a dial
C22_Witness ==
  /\ sinkLog # <<>>
  /\ sinkLog[1].kvError
  /\ FirstChunk = ChunkStored
  /\ stringify(IdStored) \in kvStore
  /\ sinkLog[1].did = "Invalid user ID"
  /\ dials = <<>>
  /\ wsReadyState # WS_READY_STATE_OPEN

\* String.prototype.toLowerCase on ASCII text
AsciiLowerCase(text) ==
  [i \in 1..Len(text) |-> IF text[i] >= 65 /\ text[i] <= 90 THEN text[i] + 32 ELSE text[i]]

\* C23 (as claimed): a request reaches the tunnel engine if and only if its
\* Upgrade header equals 'websocket' compared case-insensitively; every other
\* request goes to the management surface and creates no WebSocket pair.
C23_UpgradeIsCaseInsensitive ==
  dispatched # NoDispatch =>
    /\ (dispatched.handler = "vlessOverWSHandler")
         <=> (AsciiLowerCase(dispatched.upgrade) = Websocket)
    /\ dispatched.handler # "vlessOverWSHandler" =>
         /\ phase = "idle"
         /\ dispatched.handler \in {"options", "handleGetAccounts", "handleCreateAccount",
                                    "handleDeleteAccount", "getHTML"}

\* the steps the engine and the runtime take on their own, without another
\* event from the peer or from a destination
EngineStep ==
  \/ SinkWrite
  \/ \E i \in 1..MaxSocks : SockWriteDone(i)
  \/ \E i \in 1..MaxSocks : ClosedFinally(i)
  \/ \E i \in 1..MaxSocks : PumpWrite(i)
  \/ \E i \in 1..MaxSocks : PumpEnd(i)

\* nothing is left to run until the peer or a destination acts
EngineIdle == ~ENABLED EngineStep

\* the peer closed the WebSocket while the session was streaming: a chunk of
\* the destination had been sent downstream on the open WebSocket, which the
\* peer's close then left Closing or Closed
PeerClosedWhileStreaming ==
  /\ peerClosed
  /\ \E j \in 1..Len(wsSendCalls) : wsSendCalls[j].open

\* C24 (as claimed): after the peer closes the WebSocket during streaming the
\* outbound socket is closed without any further byte or event from the
\* destination: once the engine has nothing left to run, no outbound socket
\* is open.
C24_PeerCloseClosesOutbound ==
  (PeerClosedWhileStreaming /\ EngineIdle) =>
    \A i \in 1..Len(socks) : socks[i].st # "open"

\* an outbound socket that had reached streaming (its closed handler set, its
\* pump started) has closed or errored
OutboundEndedWhileStreaming ==
  \E i \in 1..Len(socks) : socks[i].closedHandler # "none" /\ socks[i].st # "open"

\* a write of an inbound chunk to the outbound socket failed
UpstreamWriteFailed ==
  \E j \in 1..Len(sinkLog) : sinkLog[j].did = "writeFailed"

\* C25: during streaming the end of either pump closes the other side: once
\* the outbound socket has closed or errored, or a write of an inbound chunk
\* to it has failed, and the engine has nothing left to run, the WebSocket is
\* no longer Open.
C25_PumpEndClosesWebSocket ==
  ((OutboundEndedWhileStreaming \/ UpstreamWriteFailed) /\ EngineIdle)
    => wsReadyState # WS_READY_STATE_OPEN

\* the destination closed a streaming socket while the peer was still there,
\* and the handler on tcpSocket.closed closed the WebSocket
C25_Witness ==
  /\ ~peerClosed
  /\ ~readableStreamCancel
  /\ Len(socks) = 1
  /\ socks[1].st = "closed"
  /\ socks[1].closedHandler = "ran"
  /\ wsSendCalls # <<>>
  /\ wsReadyState = WS_READY_STATE_CLOSING
  /\ EngineIdle

\* C26: safeCloseWebSocket never raises to its caller, whatever the ready
\* state and however often it is called; it does not call close() on a socket
\* that is Closed (nor on one that is Connecting); and a call that follows a
\* call whose close() went through leaves the ready state as that call left it.
C26_SafeCloseIsIdempotent ==
  \A j \in 1..Len(closeLog) :
    /\ ~closeLog[j].raised
    /\ closeLog[j].readyState = WS_READY_STATE_CLOSED => ~closeLog[j].called
    /\ closeLog[j].readyState = WS_READY_STATE_CONNECTING =>
         (~closeLog[j].called /\ closeLog[j].after = WS_READY_STATE_CONNECTING)
    /\ closeLog[j].after # WS_READY_STATE_OPEN \/ closeLog[j].threw
    /\ (j > 1 /\ ~closeLog[j - 1].threw /\ closeLog[j].readyState = closeLog[j - 1].after)
         => closeLog[j].after = closeLog[j - 1].after

\* an Open socket closed three times: the first call closes it, the second
\* call's close() throws on the Closing socket and is caught, the third finds
\* it Closed after the peer's close and leaves it alone
C26_Witness ==
  /\ Len(closeLog) = 3
  /\ closeLog[1].readyState = WS_READY_STATE_OPEN
  /\ closeLog[1].called /\ ~closeLog[1].threw
  /\ closeLog[2].readyState = WS_READY_STATE_CLOSING
  /\ closeLog[2].called /\ closeLog[2].threw
  /\ closeLog[3].readyState = WS_READY_STATE_CLOSED
  /\ ~closeLog[3].called

\* the client holds a request in the layout of the design that carries the
\* configured identifier
ClientChunkIsValid ==
  /\ handshake.clientChunk \in {EncodeRequest(t) : t \in Requests}
  /\ UuidText(Slice(handshake.clientChunk, 1, 17)) = handshake.configUUID

\* C27 (as claimed): a session that got no first message within the header
\* timeout is closed and has opened no outbound connection; and a client that
\* holds a valid first chunk, and sends it as soon as it can, is not timed
\* out: once handleWebSocketUpgrade has answered, its session is started.
C27_HandshakeCanBeSatisfied ==
  /\ (handshake.pc = "rejected" /\ vlessHeader = NotParsed) =>
       (handshake.closeCode # 0 /\ handshake.connects = <<>>)
  /\ (handshake.responseStatus # 0 /\ ClientChunkIsValid) => handshake.pc = "started"

\* C29 (as claimed): Utils.parseVLESSHeader of src/unnamed/part_000 applied to
\* a request encoded in the layout of section 4.1 returns a header with the
\* address and the port of the request, and its remaining data starts at the
\* first byte of the payload.
C29_ParseVLESSHeaderFollowsLayout ==
  (request # NoRequest /\ vlessHeader # NotParsed) =>
    LET buf == vlessBuffers[1] IN
      /\ vlessHeader.kind = "header"
      /\ vlessHeader.address = AddressText(request.addressType, request.addr)
      /\ vlessHeader.port = request.port
      /\ vlessHeader.offset = Len(buf) - Len(request.payload)
      /\ SliceFrom(buf, vlessHeader.offset) = request.payload

\* what the forwarding branch of the write handler records for a chunk
ForwardOutcomes == {"forward", "writeFailed", "locked", "lockedDialing"}

\* C30 (as claimed): within one session only the first chunk taken by the
\* write handler goes to processVlessHeader; every later chunk is handled by
\* the forwarding branch, whatever the first chunk asked for.
C30_OnlyFirstChunkIsParsed ==
  \A j \in 2..Len(sinkLog) : sinkLog[j].did \in ForwardOutcomes

\* the identifier and the fallback destination that the session's own request
\* environment determines: its UUID and PROXYIP, the built-in ones when unset
OwnUserID == IF env.UUID # <<>> THEN env.UUID ELSE DefaultUserID
OwnProxyIP == IF env.PROXYIP # <<>> THEN env.PROXYIP ELSE DefaultProxyIP

\* C28 (as claimed): whatever other requests the module instance handles
\* before or during a session, a first chunk is accepted only if its
\* identifier is valid under the session's own environment, and a retry dials
\* the fallback destination of the session's own environment.
C28_SessionUsesOwnEnv ==
  /\ (sinkLog # <<>> /\ sinkLog[1].did \in {"tcp", "dns"}) =>
       \E kvFails \in BOOLEAN : IsValidUser(FirstChunk, OwnUserID, env, kvStore, kvFails)
  /\ Len(dials) >= 2 => dials[2][1] = RetryHostname(OwnProxyIP, tcp.addressRemote)

\* C31: once a chunk has been read from the primary outbound socket there is
\* no fallback redial in the session, however that socket ends afterwards.
C31_NoRedialAfterIncomingData ==
  (Len(socks) >= 1 /\ socks[1].hasIncomingData) => (Len(dials) = 1 /\ Len(socks) = 1)

\* C31 witness: the primary socket yielded a chunk, then ended with an error,
\* and its pump has returned
C31_Witness ==
  /\ Len(socks) >= 1
  /\ socks[1].hasIncomingData
  /\ socks[1].st = "errored"
  /\ socks[1].pump = "ended"
  /\ Len(dials) = 1

\* the fields of a buffer by the layout of section 4.1, read byte by byte:
\* options length at 17, port at 19+O, address type at 21+O
LayoutOptLength(buf) == buf[18]
LayoutAddressType(buf) == buf[22 + LayoutOptLength(buf)]
LayoutAddressLength(buf) ==
  CASE LayoutAddressType(buf) = 1 -> 4
    [] LayoutAddressType(buf) = 3 -> 16
    [] OTHER -> buf[23 + LayoutOptLength(buf)]
LayoutPort(buf) ==
  buf[20 + LayoutOptLength(buf)] * 256 + buf[21 + LayoutOptLength(buf)]

\* C32: for every buffer that processVlessHeader of src/_worker.js accepts,
\* rawDataIndex is 22 + O + addressLength, plus one for a domain name, with
\* addressLength 4, 16 or the value of the length prefix, and the port is the
\* big-endian value of the two bytes at 19 + O.
C32_PayloadOffsetFormula ==
  \A k \in 1..2 :
    Parsed(k) =>
      LET buf == vlessBuffers[k] IN
        /\ parsed[k].rawDataIndex =
             22 + LayoutOptLength(buf) + LayoutAddressLength(buf)
                + (IF LayoutAddressType(buf) = 2 THEN 1 ELSE 0)
        /\ parsed[k].portRemote = LayoutPort(buf)

\* C32 witness: a header with options and a domain name or an IPv6 address,
\* whole inside its buffer, was accepted, and so was the second buffer
C32_Witness ==
  /\ Parsed(1) /\ Parsed(2)
  /\ LayoutOptLength(vlessBuffers[1]) > 0
  /\ LayoutAddressType(vlessBuffers[1]) \in {2, 3}
  /\ parsed[1].rawDataIndex <= Len(vlessBuffers[1])

\* C33 (as claimed): in the second program of src/worker.js a well-formed
\* first chunk whose identifier bytes are those of the configured identifier
\* is accepted, and so is one whose identifier is a key of the store when the
\* key-value backend is bound.
C33_Worker2AcceptsKnownIdentifier ==
  (request # NoRequest /\ parsed[4] # NotCalled) =>
    /\ stringify(request.id) = StripDashes(userID) => ~parsed[4].hasError
    /\ (env.VLESS_KV /\ stringify(request.id) \in kvStore) => ~parsed[4].hasError

\* C38 (as claimed): remoteSocketToWS never calls webSocket.send while the
\* WebSocket is not Open: every recorded call of send found it Open.
C38_SendOnlyWhenOpen ==
  \A j \in 1..Len(wsSendCalls) : wsSendCalls[j].open

\* the first chunk the write handler of a session of src/worker.js took
TunnelFirstChunk == tunnel.log[1].chunk

\* the second program took a first chunk that its processVlessHeader accepts
\* and that asks for UDP
TunnelFirstIsUdp ==
  /\ tunnel.variant = 2
  /\ tunnel.log # <<>>
  /\ LET r == worker2_processVlessHeader(TunnelFirstChunk, tunnel.userID, tunnel.env) IN
       r.kind = "return" /\ ~r.hasError /\ r.isUDP

\* C34 (as claimed): in the second program of src/worker.js a first chunk
\* with command UDP, whatever its port, fails the session: the WebSocket is
\* closed, the upstream pipe has ended and no outbound connection is opened.
C34_Worker2RejectsEveryUdp ==
  TunnelFirstIsUdp =>
    (tunnel.wsCloses >= 1 /\ tunnel.pipe = "failed" /\ tunnel.connects = <<>>)

\* C35 (as claimed): in both programs of src/worker.js, once the primary
\* dial has succeeded, whatever has been written to the outbound socket
\* starts with the residual payload of the first chunk, and the downstream
\* pump is not installed before that write.
C35_ResidualPayloadWrittenFirst ==
  tunnel.dial = "ok" =>
    /\ tunnel.outbound # <<>> => tunnel.outbound[1] = tunnel.residual
    /\ tunnel.pump => tunnel.outbound # <<>>

\* the first message of the upgrade was taken during the wait, parses as a
\* header of the configured identifier, and has bytes after the header
FirstChunkHasRemainingData ==
  /\ handshake.clientSent
  /\ vlessHeader.kind = "header"
  /\ vlessHeader.uuid = handshake.configUUID
  /\ Len(handshake.clientChunk) > vlessHeader.offset

\* C39 (as claimed): in a VLESSConnection of src/unnamed/part_000 cleanup
\* takes effect at most once (each socket is closed once, the statistics are
\* logged once), and no write to the target socket and no send on the
\* WebSocket is made after cleanup has run.
C39_CleanupIsFinal ==
  /\ connection.cleanups <= 1
  /\ connection.targetCloses <= 1
  /\ connection.websocketCloses <= 1
  /\ connection.statsLogged <= 1
  /\ \A j \in 1..Len(connection.forwarded) : ~connection.forwarded[j].afterCleanup

\* C36 (as claimed): when handleWebSocketUpgrade of src/unnamed/part_000 has
\* answered an upgrade whose first chunk has bytes after the header, the
\* status is 101 and the first write to the outbound socket is those bytes.
C36_RemainingDataWrittenFirst ==
  (FirstChunkHasRemainingData /\ handshake.responseStatus # 0) =>
    /\ handshake.responseStatus = 101
    /\ handshake.targetWrites # <<>>
    /\ handshake.targetWrites[1] = SliceFrom(handshake.clientChunk, vlessHeader.offset)

\* C37 (as claimed): every upgrade that src/unnamed/part_000 rejects, for a
\* malformed first chunk or for an unknown identifier, is closed with the
\* policy-violation code 1008, so both are closed with the same code.
C37_CloseCodeDoesNotLeak ==
  handshake.pc = "rejected" => handshake.closeCode = 1008

\* C40: in the VLESSWorker of src/unnamed/part_000 activeConnections is the
\* number of entries of the connections map and is not negative, in every
\* state, and no step decreases totalConnections.
C40_StatsMatchConnections ==
  /\ [](/\ worker.stats.activeConnections = Cardinality(worker.connections)
        /\ worker.stats.activeConnections >= 0)
  /\ [][worker'.stats.totalConnections >= worker.stats.totalConnections]_vars

\* C40 witness: two connections were opened, one of them has been closed
\* and removed from the map, the other is still tracked.
C40_Witness ==
  /\ worker.stats.totalConnections = 2
  /\ Cardinality(worker.connections) = 1
  /\ worker.closedHandlers = worker.connections

====
